---- MODULE Spec2Model ----
(***************************************************************************)
(* Asynchronous confirmation trackers of the VerusID registration wizard:  *)
(*   - CurrencyConversionStep (submit a conversion, poll the destination   *)
(*     balance every 10 s, no timeout);                                    *)
(*   - RegisterIdentityStep (commit, bounded wait, finalize, bounded wait).*)
(* Every handler, timer callback and promise continuation of the two       *)
(* components is one action; the JavaScript event loop interleaves them.   *)
(***************************************************************************)
EXTENDS Integers, Sequences, FiniteSets, TLC

(* ---- bounds of the model ---- *)
MaxSends == 2       \* send_currency_conversion calls pending or resolved
MaxInFlight == 2    \* balance checks of the poll ticks in flight at once
MaxBalance == 1     \* balances reported by the backend are 0..MaxBalance
MaxElapsed == 1     \* elapsedSeconds saturates here
MaxEvents == 2      \* the count of dispatched 'completed' events saturates here
MaxFlows == 2       \* executions of startFlow (mount + Try Again clicks)
MaxModalSends == 1  \* the same, for a conversion sub-step inside the modal
MaxFetches == 2     \* executions of fetchIdentities in flight at once
MaxIdentities == 2  \* identities get_login_identities_fast returns
MaxWallet == 2      \* wallet balances are 0..MaxWallet, in units of 0.00005
MaxFee == 1         \* walletInfo.paytxfee is 0..MaxFee, in the same units
MaxPrice == 1       \* estimate_currency_conversion returns 1..MaxPrice
MaxInputs == 3      \* input events on the name field
MaxChecks == 2      \* check_identity_exists calls in flight at a namespace selection
MaxSince == 750     \* the time since the last input saturates here (ms)
MaxConversations == 3  \* conversations the parent passes to ConversationsList
MaxOpens == 2       \* the count of openNewChatModal events saturates here

(* ---- values ---- *)
NULL == <<>>                              \* JS null for the message variables
BackendErrors == {"insufficient funds"}   \* messages the backend rejects with
Balances == 0..MaxBalance
Handles == 1..(2 * MaxSends)             \* values returned by setInterval
RegHandles == 1..(2 * MaxFlows)

Min(a, b) == IF a < b THEN a ELSE b

VARIABLES
  (* CurrencyConversionStep *)
  convLife,                   \* "unmounted" | "mounted" | "destroyed"
  loading, error, initPc,     \* initialize() and its position
  amountWithBuffer, totalSourceCurrencyBalance,
  selectedDestinationAddress, conversionRate,
  converting, conversionStarted, conversionTxid, conversionError,
  pollingInterval, baselineBalance, conversionCompleted, actualAmountReceived,
  elapsedSeconds, timerInterval,
  awaitingBaseline,           \* startConversion executions awaiting the baseline fetch
  awaitingSend,               \* startConversion executions awaiting send_currency_conversion
  livePolls, liveTimers,      \* interval timers of the host that are not cleared
  nextHandle,                 \* last value returned by setInterval
  inflight,                   \* balance checks in flight, by the interval that issued them
  sendResolved,               \* send_currency_conversion calls resolved successfully
  completedEvents,            \* 'completed' events dispatched
  cancelled,                  \* intervals cleared by onDestroy / retryConversion
                              \* with a balance check still in flight
  (* RegisterIdentityStep *)
  regLife,                    \* "unmounted" | "mounted" | "destroyed"
  phase, errorMsg,
  flowPc,                     \* the backend command startFlow awaits, or "none"
  controlAddress, privateAddress, commitTxid, finalizeTxid,
  regElapsedSeconds, regTimerInterval,   \* elapsedSeconds, timerInterval
  regLiveTimers, regNextHandle,
  calls,                      \* backend commands invoked by the current startFlow
  flows,                      \* startFlow executions so far
  regCompleted, regErrors,    \* 'completed' and 'error' events dispatched
  regErrorEvent,              \* message of the last 'error' event
  namereservation,            \* commit.namereservation, a local of startFlow
  identityBundle,             \* argument of the last register_identity call
  regCompletedEvent,          \* detail of the last 'completed' event
  (* VerusIdRegistrationModal *)
  show,                       \* bound to showRegistrationModal of VerusIdStep
  currentStep, keysBackupReady, registrationData,
  convSource,                 \* selectedPaymentOption.currencyName of the
                              \* CurrencyConversionStep the template created
  ownConversionCompleted,     \* a 'completed' event of a conversion from the
                              \* selected currency reached the modal since
                              \* the option was selected
  pdsIsValid,                 \* isValid of PaymentDetailsStep
  keyPc, ack1, ack2,          \* KeyBackupStep: the command onMount awaits,
                              \* "loaded", "failed" or "none"; the checkboxes
  (* VerusIdStep *)
  closeEvent,                 \* detail of the 'close' event that closed the modal
  fetchStatus, loginIdentities, loginIdentityOptions,
  selectedIdentityIAddress, balanceLoadingStatus,
  idSelected,                 \* identity of the last 'idSelected' event
  fetching,                   \* executions of fetchIdentities in flight
  (* PaymentDetailsStep: the payment options *)
  walletInfo, paymentOptions, selectedPaymentOption,
  pdsLoading, pdsError,       \* loading, error
  pdsPc,                      \* the command fetchWalletInfoAndCalculateOptions
                              \* awaits, or "none"
  (* IdentityInfoStep: the name availability check *)
  idLife,                     \* "mounted" | "destroyed"
  idName,                     \* name, a sequence of characters
  selectedNamespace, nameAvailabilityStatus,
  debounceTimeout,            \* handle of the last timeout set, 0 before
  liveTimeouts,               \* timeouts set and not fired or cleared, each
                              \* with the time left until it fires
  sinceInput,                 \* time since the last input event
  burstChecks,                \* check_identity_exists calls the debounce
                              \* issued since the last input event
  lastCheck,                  \* identityName of the last call
  inflightChecks,             \* check_identity_exists calls not yet answered
  onboarding,                 \* OnboardingFlow: its props and state
  chat,                       \* ConversationsList: its state and localStorage
  lastFailure                 \* the rejected poll, the rejected flow command or the
                              \* timeout that the last step handled, or "none"

convVars == <<convLife, loading, error, initPc, amountWithBuffer,
              totalSourceCurrencyBalance, selectedDestinationAddress,
              conversionRate, converting, conversionStarted, conversionTxid,
              conversionError, pollingInterval, baselineBalance,
              conversionCompleted, actualAmountReceived, elapsedSeconds,
              timerInterval, awaitingBaseline, awaitingSend, livePolls,
              liveTimers, nextHandle, inflight, sendResolved,
              completedEvents, cancelled>>

initVars == <<loading, error, initPc, amountWithBuffer,
              totalSourceCurrencyBalance, selectedDestinationAddress,
              conversionRate>>
execVars == <<converting, conversionStarted, conversionTxid, conversionError,
              baselineBalance, conversionCompleted, actualAmountReceived>>
timerVars == <<pollingInterval, timerInterval, elapsedSeconds, livePolls,
               liveTimers, nextHandle>>
asyncVars == <<awaitingBaseline, awaitingSend, inflight>>
ghostVars == <<sendResolved, completedEvents, cancelled>>

regArgVars == <<namereservation, identityBundle, regCompletedEvent>>

regVars == <<regLife, phase, errorMsg, flowPc, controlAddress, privateAddress,
             commitTxid, finalizeTxid, regElapsedSeconds, regTimerInterval,
             regLiveTimers, regNextHandle, calls, flows, regCompleted,
             regErrors, regErrorEvent, regArgVars>>

keyVars == <<keyPc, ack1, ack2>>
idFetchVars == <<fetchStatus, loginIdentities, loginIdentityOptions,
                 selectedIdentityIAddress, balanceLoadingStatus, idSelected,
                 fetching>>
hostVars == <<closeEvent, idFetchVars>>
payVars == <<walletInfo, paymentOptions, selectedPaymentOption, pdsLoading,
             pdsError, pdsPc>>
nameVars == <<idLife, idName, selectedNamespace, nameAvailabilityStatus,
              debounceTimeout, liveTimeouts, sinceInput, burstChecks,
              lastCheck, inflightChecks>>
localVars == <<payVars, nameVars, onboarding, chat>>
modalVars == <<show, currentStep, keysBackupReady, registrationData,
               convSource, ownConversionCompleted, pdsIsValid, keyVars, hostVars,
               localVars>>

vars == <<convVars, regVars, lastFailure, modalVars>>

(* ---- CurrencyConversionStep ---- *)

\* selectedSourceAddress keeps its default, the wildcard
selectedSourceAddress == "*"

\* Math.round of the rational num/den, amounts counted in satoshis
roundToSatoshis(num, den) == (2 * num + den) \div (2 * den)

\* $: hasValidSourceAddress, wildcard branch
hasValidSourceAddress == totalSourceCurrencyBalance >= amountWithBuffer

\* $: internalCanProceed
internalCanProceed ==
  /\ ~converting
  /\ ~conversionStarted
  /\ selectedSourceAddress # ""
  /\ selectedDestinationAddress # ""
  /\ conversionRate # 0
  /\ hasValidSourceAddress
  /\ amountWithBuffer > 0

\* The two Retry / Try Again buttons of the template
RetryVisible ==
  /\ ~loading
  /\ \/ error # NULL
     \/ /\ ~(conversionStarted \/ converting)
        /\ ~conversionCompleted
        /\ conversionError # NULL

TotalInFlight == LET RECURSIVE Sum(_)
                     Sum(S) == IF S = {} THEN 0
                               ELSE LET h == CHOOSE x \in S : TRUE
                                    IN inflight[h] + Sum(S \ {h})
                 IN Sum(Handles)

ConvInit ==
  /\ convLife = "unmounted"
  /\ loading = TRUE
  /\ error = NULL
  /\ initPc = "none"
  /\ amountWithBuffer = 0
  /\ totalSourceCurrencyBalance = 0
  /\ selectedDestinationAddress = ""
  /\ conversionRate = 0
  /\ converting = FALSE
  /\ conversionStarted = FALSE
  /\ conversionTxid = 0
  /\ conversionError = NULL
  /\ pollingInterval = 0
  /\ baselineBalance = 0
  /\ conversionCompleted = FALSE
  /\ actualAmountReceived = 0
  /\ elapsedSeconds = 0
  /\ timerInterval = 0
  /\ awaitingBaseline = 0
  /\ awaitingSend = 0
  /\ livePolls = {}
  /\ liveTimers = {}
  /\ nextHandle = 0
  /\ inflight = [h \in Handles |-> 0]
  /\ sendResolved = 0
  /\ completedEvents = 0
  /\ cancelled = {}

RegInit ==
  /\ regLife = "unmounted"
  /\ phase = "idle"
  /\ errorMsg = NULL
  /\ flowPc = "none"
  /\ controlAddress = 0
  /\ privateAddress = 0
  /\ commitTxid = 0
  /\ finalizeTxid = 0
  /\ regElapsedSeconds = 0
  /\ regTimerInterval = 0
  /\ regLiveTimers = {}
  /\ regNextHandle = 0
  /\ calls = <<>>
  /\ flows = 0
  /\ regCompleted = 0
  /\ regErrors = 0
  /\ regErrorEvent = NULL
  /\ namereservation = 0
  /\ identityBundle = [txid |-> 0, namereservation |-> 0,
                       primaryaddresses |-> <<0>>, privateaddress |-> 0]
  /\ regCompletedEvent = [controlAddress |-> 0, privateAddress |-> 0]

\* VerusIdStep: values and initial state

\* formatted names of the identities the wallet may hold, as the pieces of the
\* template literal that builds them; an identity's i_address is taken to be
\* its formatted name
IdentityNames ==
  {<<"alice", "@">>, <<"alice", ".", "bitcoins", "@">>, <<"Bob", "@">>}

\* String.prototype.localeCompare on IdentityNames: the collation ranks
\* punctuation before letters ("." before "@") and compares letters without
\* regard to case before anything else, unlike the order of the code units
localeRank(n) ==
  CASE n = <<"alice", ".", "bitcoins", "@">> -> 1
    [] n = <<"alice", "@">> -> 2
    [] n = <<"Bob", "@">> -> 3

localeCompare(a, b) ==
  IF localeRank(a) < localeRank(b) THEN -1
  ELSE IF localeRank(a) > localeRank(b) THEN 1 ELSE 0

\* a FormattedIdentity as get_login_identities_fast returns it
fastIdentity(n) == [formatted_name |-> n, i_address |-> n, balance |-> NULL]

\* the answers of get_login_identities_fast: the identities in any order
IdentityLists ==
  {s \in UNION {[1..n -> IdentityNames] : n \in 0..MaxIdentities} :
     \A i, j \in DOMAIN s : i # j => s[i] # s[j]}

\* ids.sort((a, b) => a.formatted_name.localeCompare(b.formatted_name))
RECURSIVE sortByName(_)
sortByName(ids) ==
  IF ids = <<>> THEN <<>>
  ELSE LET rest == sortByName(Tail(ids))
           k == Cardinality({i \in DOMAIN rest :
                   localeCompare(rest[i].formatted_name,
                                 Head(ids).formatted_name) < 0})
       IN SubSeq(rest, 1, k) \o <<Head(ids)>> \o SubSeq(rest, k + 1, Len(rest))

\* formatBalance(balance, iAddress) read with the status map st
formatBalanceWith(st, balance, iAddress) ==
  IF st[iAddress] = "loading" THEN <<"skeleton">>
  ELSE IF balance = NULL \/ st[iAddress] = "error" THEN NULL
  ELSE <<ToString(balance[1]), "VRSC">>

\* the dropdown options fetchIdentities and fetchBalancesProgressively build
\* from the list ids
optionsOf(st, ids) ==
  [i \in DOMAIN ids |->
     [id |-> ids[i].i_address, name |-> ids[i].formatted_name,
      enabled |-> TRUE,
      balance |-> formatBalanceWith(st, ids[i].balance, ids[i].i_address)]]

\* the skeleton options fetchIdentities shows first
skeletonOptions ==
  [i \in 1..3 |-> [id |-> <<"skeleton-", ToString(i - 1)>>,
                   name |-> <<"Loading...">>,
                   enabled |-> FALSE, balance |-> <<"skeleton">>]]

noStatus == [n \in IdentityNames |-> "none"]

FetchSlots == 1..MaxFetches
freeSlot == CHOOSE k \in FetchSlots :
              fetching[k] = NULL /\ \A j \in 1..(k - 1) : fetching[j] # NULL

IdStepInit ==
  /\ show = FALSE
  /\ closeEvent = NULL
  /\ fetchStatus = "fetching"
  /\ loginIdentities = <<>>
  /\ loginIdentityOptions = skeletonOptions
  /\ selectedIdentityIAddress = NULL
  /\ balanceLoadingStatus = noStatus
  /\ idSelected = NULL
  /\ fetching = [k \in FetchSlots |->
                   IF k = 1 THEN [pc |-> "identities", newIdentityName |-> NULL,
                                  ids |-> <<>>, settled |-> {}]
                   ELSE NULL]

\* registrationData as declared and as resetModalState() rebuilds it.  The
\* fields referralCode, preview, isNameAvailable, isReferralValid and
\* usdEstimate are written by the same two assignments as name and are left out.
initialRegistrationData ==
  [name |-> "", namespace |-> NULL, isStep1Valid |-> FALSE,
   selectedPaymentOption |-> NULL, isStep2Valid |-> FALSE,
   showConversionStep |-> FALSE, conversionCompleted |-> FALSE,
   conversionTxid |-> 0, actualAmountReceived |-> 0,
   conversionCanProceed |-> FALSE, conversionStartFunction |-> NULL,
   isConverting |-> FALSE, controlAddress |-> 0, privateAddress |-> 0]

\* PaymentDetailsStep after onMount: fetchWalletInfoAndCalculateOptions()
\* awaits get_wallet_info
PayInit ==
  /\ walletInfo = NULL
  /\ paymentOptions = <<>>
  /\ selectedPaymentOption = NULL
  /\ pdsLoading = TRUE
  /\ pdsError = NULL
  /\ pdsPc = "get_wallet_info"

\* IdentityInfoStep as declared: no name, no namespace, no timeout set
NameInit ==
  /\ idLife = "mounted"
  /\ idName = <<>>
  /\ selectedNamespace = NULL
  /\ nameAvailabilityStatus = "unchecked"
  /\ debounceTimeout = 0
  /\ liveTimeouts = {}
  /\ sinceInput = MaxSince
  /\ burstChecks = 0
  /\ lastCheck = NULL
  /\ inflightChecks = 0

\* the modal as VerusIdStep creates it, closed
ModalInit ==
  /\ currentStep = 1
  /\ keysBackupReady = FALSE
  /\ registrationData = initialRegistrationData
  /\ convSource = ""
  /\ ownConversionCompleted = FALSE
  /\ pdsIsValid = FALSE
  /\ keyPc = "none"
  /\ ack1 = FALSE
  /\ ack2 = FALSE

(* ---- OnboardingFlow ---- *)

BlockchainIds == {"VRSC", "CHIPS"}
Steps == {"welcome", "responsibility", "blockchain", "verusid"}

\* Credentials objects: the ones the parent passes as initialCredentials and
\* the ones BlockchainDetectionStep builds for a blockchainSelected event; two
\* of them are the same object (===) iff they are equal here
PropCredentials == {[from |-> "prop", chain |-> id] : id \in BlockchainIds}
detectedCredentials(id) == [from |-> "detection", chain |-> id]

\* the identities VerusIdStep reports with idSelected
FlowIdentities == {NULL, <<"alice", "@">>}

\* $: if (initialCredentials && initialCredentials !== currentCredentials)
credentialsSynced(f) ==
  IF f.initialCredentials # NULL /\ f.initialCredentials # f.currentCredentials
    THEN [f EXCEPT !.currentCredentials = f.initialCredentials,
                   !.selectedIdentity = NULL]
    ELSE f

\* $: if (currentStep !== 'blockchain') blockchainSelected = false; the
\* statement reads currentStep alone and runs when currentStep was assigned
selectionReset(f) ==
  IF f.currentStep # "blockchain" THEN [f EXCEPT !.blockchainSelected = FALSE]
  ELSE f

\* $: isPrimaryButtonDisabled
isPrimaryButtonDisabled(f) ==
  IF f.currentStep = "welcome" THEN FALSE
  ELSE IF f.currentStep = "responsibility" THEN FALSE
  ELSE \/ (f.currentStep = "blockchain"
            /\ (~f.detectionCompleted \/ ~f.blockchainSelected))
       \/ (f.currentStep = "verusid" /\ f.selectedIdentity = NULL)

\* the component as created with the props initialStep and initialCredentials:
\* the declarations, then the reactive statements.  visitSelected tells that a
\* blockchainSelected event arrived since the blockchain step was entered, and
\* via whether currentStep is the one of the props or one goToStep() assigned.
flowCreated(initialStep, initialCredentials) ==
  selectionReset(credentialsSynced(
    [initialCredentials |-> initialCredentials,
     currentStep |-> initialStep,
     selectedIdentity |-> NULL,
     currentCredentials |-> initialCredentials,
     connectionBlockHeight |-> NULL,
     selectedBlockchainId |-> NULL,
     detectionCompleted |-> FALSE,
     availableBlockchainsCount |-> 0,
     blockchainSelected |-> FALSE,
     visitSelected |-> FALSE,
     via |-> "props"]))

\* the props at their defaults
OnboardingInit == onboarding = flowCreated("welcome", NULL)

\* goToStep(step) and the reactive statements that follow the assignment of
\* currentStep
goToStep(f, step) ==
  LET moved == [f EXCEPT !.currentStep = step,
                         !.via = "goToStep",
                         !.selectedIdentity =
                            IF step # "verusid" THEN NULL ELSE @,
                         !.visitSelected =
                            IF step = "blockchain" /\ f.currentStep # "blockchain"
                              THEN FALSE ELSE @]
  IN selectionReset(moved)

\* nextStep()
nextStep(f) ==
  IF f.currentStep = "welcome" THEN goToStep(f, "responsibility")
  ELSE IF f.currentStep = "responsibility" THEN goToStep(f, "blockchain")
  ELSE IF f.currentStep = "blockchain" /\ f.detectionCompleted
          /\ f.currentCredentials # NULL
    THEN goToStep(f, "verusid")
  ELSE f

\* prevStep() keeping the blockchain selection when it goes back from the
\* VerusID step
prevStep_KeepsSelection(f) ==
  IF f.currentStep = "responsibility" THEN goToStep(f, "welcome")
  ELSE IF f.currentStep = "blockchain" THEN goToStep(f, "responsibility")
  ELSE IF f.currentStep = "verusid"
    THEN goToStep([f EXCEPT !.selectedIdentity = NULL], "blockchain")
  ELSE f

\* prevStep()
prevStep(f) ==
  IF f.currentStep = "responsibility" THEN goToStep(f, "welcome")
  ELSE IF f.currentStep = "blockchain" THEN goToStep(f, "responsibility")
  ELSE IF f.currentStep = "verusid"
    THEN goToStep([f EXCEPT !.selectedIdentity = NULL,
                            !.blockchainSelected = FALSE,
                            !.selectedBlockchainId = NULL], "blockchain")
  ELSE f

\* handleBlockchainSelected(event), then the reactive statement on
\* currentCredentials
handleBlockchainSelected(f, blockchainId, blockHeight) ==
  credentialsSynced(
    [f EXCEPT !.selectedBlockchainId = <<blockchainId>>,
              !.currentCredentials = detectedCredentials(blockchainId),
              !.connectionBlockHeight = <<blockHeight>>,
              !.detectionCompleted = TRUE,
              !.blockchainSelected = TRUE,
              !.visitSelected = TRUE])

\* handleDetectionCompleted(event)
handleDetectionCompleted(f, availableCount) ==
  [f EXCEPT !.availableBlockchainsCount = availableCount,
            !.detectionCompleted = TRUE]

\* handleIdSelected(event)
handleIdSelected(f, identity) == [f EXCEPT !.selectedIdentity = identity]

\* the primary button: Get Started, I Understand, Continue (nextStep) or
\* Login (handleLogin, which changes no state of the flow)
ClickPrimary ==
  /\ ~isPrimaryButtonDisabled(onboarding)
  /\ onboarding' =
       CASE onboarding.currentStep = "welcome" ->
              goToStep(onboarding, "responsibility")
         [] onboarding.currentStep = "responsibility" ->
              goToStep(onboarding, "blockchain")
         [] onboarding.currentStep = "blockchain" -> nextStep(onboarding)
         [] OTHER -> onboarding

\* the Back button, rendered on every step but the first
ClickBack ==
  /\ onboarding.currentStep # "welcome"
  /\ onboarding' = prevStep(onboarding)

\* BlockchainDetectionStep, the step rendered, dispatches blockchainSelected
BlockchainSelectedEvent(blockchainId, blockHeight) ==
  /\ onboarding.currentStep = "blockchain"
  /\ onboarding' = handleBlockchainSelected(onboarding, blockchainId, blockHeight)

\* BlockchainDetectionStep, the step rendered, dispatches detectionCompleted
DetectionCompletedEvent(availableCount) ==
  /\ onboarding.currentStep = "blockchain"
  /\ onboarding' = handleDetectionCompleted(onboarding, availableCount)

\* BlockchainDetectionStep assigns its prop selectedBlockchainId, which
\* bind: copies to the flow
BindSelectedBlockchainId(id) ==
  /\ onboarding.currentStep = "blockchain"
  /\ onboarding' = [onboarding EXCEPT !.selectedBlockchainId = id]

\* VerusIdStep dispatches idSelected
IdSelectedEvent(identity) ==
  /\ onboarding.currentStep = "verusid"
  /\ onboarding' = handleIdSelected(onboarding, identity)

\* the parent page passes another initialCredentials
InitialCredentialsChange(credentials) ==
  /\ credentials # onboarding.initialCredentials
  /\ onboarding' =
       credentialsSynced([onboarding EXCEPT !.initialCredentials = credentials])

\* the parent page creates the flow with the props it chooses
CreateFlow(initialStep, initialCredentials) ==
  /\ onboarding' = flowCreated(initialStep, initialCredentials)
  /\ onboarding' # onboarding

OnboardingStepOf(step) ==
  /\ step
  /\ UNCHANGED <<convVars, regVars, lastFailure, show, currentStep,
                 keysBackupReady, registrationData, convSource,
                 ownConversionCompleted, pdsIsValid, keyVars, hostVars,
                 payVars, nameVars, chat>>

NextOnboarding ==
  \/ \E initialStep \in Steps, c \in {NULL} \cup PropCredentials :
       OnboardingStepOf(CreateFlow(initialStep, c))
  \/ OnboardingStepOf(ClickPrimary)
  \/ OnboardingStepOf(ClickBack)
  \/ \E id \in BlockchainIds, blockHeight \in {1, 2} :
       OnboardingStepOf(BlockchainSelectedEvent(id, blockHeight))
  \/ \E n \in 0..Cardinality(BlockchainIds) :
       OnboardingStepOf(DetectionCompletedEvent(n))
  \/ \E id \in {NULL} \cup {<<b>> : b \in BlockchainIds} :
       OnboardingStepOf(BindSelectedBlockchainId(id))
  \/ \E identity \in FlowIdentities : OnboardingStepOf(IdSelectedEvent(identity))
  \/ \E c \in {NULL} \cup PropCredentials :
       OnboardingStepOf(InitialCredentialsChange(c))

(* ---- ConversationsList ---- *)

\* $: showExplainer
showExplainer(l) == l.conversations = 0 /\ ~l.hasAcknowledgedChatInfo

\* the list before it is created, over a localStorage that holds item under
\* the key chatInfoAcknowledged (NULL: no item).  conversations is
\* conversations.length; opened counts the openNewChatModal events and
\* selected is the conversation of the last selectConversation event.
listUnmounted(item, opened, selected) ==
  [life |-> "unmounted", conversations |-> 0,
   hasAcknowledgedChatInfo |-> FALSE, chatInfoAcknowledged |-> item,
   opened |-> opened, selected |-> selected]

ChatInit == chat = listUnmounted(NULL, 0, 0)

\* handleAcknowledgeChatInfo() without the localStorage.setItem
handleAcknowledgeChatInfo_NotStored(l) ==
  [l EXCEPT !.hasAcknowledgedChatInfo = TRUE]

\* handleAcknowledgeChatInfo()
handleAcknowledgeChatInfo(l) ==
  [l EXCEPT !.hasAcknowledgedChatInfo = TRUE, !.chatInfoAcknowledged = <<"true">>]

\* handleNewChat()
handleNewChat(l) ==
  IF l.hasAcknowledgedChatInfo \/ l.conversations > 0
    THEN [l EXCEPT !.opened = Min(@ + 1, MaxOpens)]
    ELSE l

\* the component is created with n conversations; onMount reads localStorage
MountList(n) ==
  /\ chat.life = "unmounted"
  /\ chat' = [chat EXCEPT
                !.life = "mounted",
                !.conversations = n,
                !.hasAcknowledgedChatInfo = (chat.chatInfoAcknowledged = <<"true">>)]

\* the component is destroyed
UnmountList ==
  /\ chat.life = "mounted"
  /\ chat' = listUnmounted(chat.chatInfoAcknowledged, chat.opened, chat.selected)

\* the parent passes another list of conversations
ConversationsChange(n) ==
  /\ chat.life = "mounted"
  /\ n # chat.conversations
  /\ chat' = [chat EXCEPT !.conversations = n,
                          !.selected = IF @ > n THEN 0 ELSE @]

\* a click on New Chat, which is disabled while the explainer is shown
ClickNewChat ==
  /\ chat.life = "mounted"
  /\ ~showExplainer(chat)
  /\ chat' = handleNewChat(chat)

\* a click on Got It, rendered with the explainer
ClickGotIt ==
  /\ chat.life = "mounted"
  /\ showExplainer(chat)
  /\ chat' = handleAcknowledgeChatInfo(chat)

\* a click on the i-th conversation: handleSelect(conversation.id)
ClickConversation(i) ==
  /\ chat.life = "mounted"
  /\ i \in 1..chat.conversations
  /\ chat' = [chat EXCEPT !.selected = i]

ChatStepOf(step) ==
  /\ step
  /\ UNCHANGED <<convVars, regVars, lastFailure, show, currentStep,
                 keysBackupReady, registrationData, convSource,
                 ownConversionCompleted, pdsIsValid, keyVars, hostVars,
                 payVars, nameVars, onboarding>>

NextChat ==
  \/ \E n \in 0..MaxConversations : ChatStepOf(MountList(n))
  \/ ChatStepOf(UnmountList)
  \/ \E n \in 0..MaxConversations : ChatStepOf(ConversationsChange(n))
  \/ ChatStepOf(ClickNewChat)
  \/ ChatStepOf(ClickGotIt)
  \/ \E i \in 1..MaxConversations : ChatStepOf(ClickConversation(i))

Init ==
  /\ ConvInit
  /\ RegInit
  /\ lastFailure = "none"
  /\ ModalInit
  /\ IdStepInit
  /\ PayInit
  /\ NameInit
  /\ OnboardingInit
  /\ ChatInit

\* onMount -> initialize(), up to its first await
ConvOnMount(requiredAmount) ==
  /\ convLife' = "mounted"
  /\ loading' = TRUE
  /\ error' = NULL
  /\ amountWithBuffer' = roundToSatoshis(requiredAmount * 11, 10)
  /\ initPc' = "estimate"
  /\ lastFailure' = "none"
  /\ UNCHANGED <<totalSourceCurrencyBalance, selectedDestinationAddress,
                 conversionRate, execVars, timerVars, asyncVars, ghostVars>>

\* The component is created.  The modal renders one step component at a time
\* and the two trackers share no variable: a behaviour of Spec exercises one
\* of them.
MountConv(requiredAmount) ==
  /\ convLife = "unmounted"
  /\ regLife = "unmounted"
  /\ ConvOnMount(requiredAmount)

\* initialize(): estimateTargetAmount() returned; fetchAddressesAndBalances()
\* returns at once when amountWithBuffer is 0, else awaits get_wallet_addresses
EstimateDone ==
  /\ initPc = "estimate"
  /\ IF amountWithBuffer = 0
       THEN loading' = FALSE /\ initPc' = "none"
       ELSE loading' = loading /\ initPc' = "addresses"
  /\ lastFailure' = "none"
  /\ UNCHANGED <<convLife, error, amountWithBuffer, totalSourceCurrencyBalance,
                 selectedDestinationAddress, conversionRate, execVars,
                 timerVars, asyncVars, ghostVars>>

\* fetchAddressesAndBalances(): addresses and balances fetched; total is the
\* sum of the source-currency balances of the addresses that hold some
AddressesResolve(total) ==
  /\ initPc = "addresses"
  /\ totalSourceCurrencyBalance' = total
  /\ selectedDestinationAddress' =
       IF total > 0 THEN "RAddr1" ELSE selectedDestinationAddress
  /\ initPc' = "rate"
  /\ lastFailure' = "none"
  /\ UNCHANGED <<convLife, loading, error, amountWithBuffer, conversionRate,
                 execVars, timerVars, asyncVars, ghostVars>>

\* fetchAddressesAndBalances(): get_wallet_addresses rejected
AddressesReject(msg) ==
  /\ initPc = "addresses"
  /\ error' = <<"Failed to load wallet data: ", msg>>
  /\ loading' = FALSE
  /\ initPc' = "none"
  /\ lastFailure' = "none"
  /\ UNCHANGED <<convLife, amountWithBuffer, totalSourceCurrencyBalance,
                 selectedDestinationAddress, conversionRate, execVars,
                 timerVars, asyncVars, ghostVars>>

\* fetchConversionRate(): rate 0 stands for the null of a rejected estimate
RateDone(rate) ==
  /\ initPc = "rate"
  /\ conversionRate' = rate
  /\ loading' = FALSE
  /\ initPc' = "none"
  /\ lastFailure' = "none"
  /\ UNCHANGED <<convLife, error, amountWithBuffer, totalSourceCurrencyBalance,
                 selectedDestinationAddress, execVars, timerVars, asyncVars,
                 ghostVars>>

\* startConversion() that starts polling before the submission is awaited
StartConversion_PollsFirst ==
  /\ convLife = "mounted"
  /\ sendResolved + awaitingBaseline + awaitingSend < MaxSends
  /\ internalCanProceed
  /\ converting' = TRUE
  /\ conversionError' = NULL
  /\ awaitingBaseline' = awaitingBaseline + 1
  /\ pollingInterval' = nextHandle + 1
  /\ livePolls' = livePolls \cup {nextHandle + 1}
  /\ nextHandle' = nextHandle + 1
  /\ lastFailure' = "none"
  /\ UNCHANGED <<convLife, initVars, conversionStarted, conversionTxid,
                 baselineBalance, conversionCompleted, actualAmountReceived,
                 timerInterval, elapsedSeconds, liveTimers, awaitingSend,
                 inflight, sendResolved, completedEvents, cancelled>>

\* startConversion(), up to the await of the baseline balance
StartConversion ==
  /\ convLife = "mounted"
  /\ sendResolved + awaitingBaseline + awaitingSend < MaxSends
  /\ internalCanProceed
  /\ converting' = TRUE
  /\ conversionError' = NULL
  /\ awaitingBaseline' = awaitingBaseline + 1
  /\ lastFailure' = "none"
  /\ UNCHANGED <<convLife, initVars, conversionStarted, conversionTxid,
                 baselineBalance, conversionCompleted, actualAmountReceived,
                 timerVars, awaitingSend, inflight, sendResolved,
                 completedEvents, cancelled>>

\* startConversion(): the baseline fetch resolved, send_currency_conversion is invoked
BaselineResolve(balance) ==
  /\ awaitingBaseline > 0
  /\ baselineBalance' = balance
  /\ awaitingBaseline' = awaitingBaseline - 1
  /\ awaitingSend' = awaitingSend + 1
  /\ lastFailure' = "none"
  /\ UNCHANGED <<convLife, initVars, converting, conversionStarted,
                 conversionTxid, conversionError, conversionCompleted,
                 actualAmountReceived, timerVars, inflight, ghostVars>>

\* a catch block that shows a fixed text and drops the raised message
startConversionCatch_Generic(msg) ==
  /\ conversionError' = <<"Failed to start conversion">>
  /\ converting' = FALSE
  /\ UNCHANGED <<convLife, initVars, conversionStarted, conversionTxid,
                 baselineBalance, conversionCompleted, actualAmountReceived,
                 timerVars, inflight, ghostVars>>

\* startConversion(): catch block
startConversionCatch(msg) ==
  /\ conversionError' = <<"Failed to start conversion: ", msg>>
  /\ converting' = FALSE
  /\ UNCHANGED <<convLife, initVars, conversionStarted, conversionTxid,
                 baselineBalance, conversionCompleted, actualAmountReceived,
                 timerVars, inflight, ghostVars>>

BaselineReject(msg) ==
  /\ awaitingBaseline > 0
  /\ awaitingBaseline' = awaitingBaseline - 1
  /\ awaitingSend' = awaitingSend
  /\ startConversionCatch(msg)
  /\ lastFailure' = "none"

SendReject(msg) ==
  /\ awaitingSend > 0
  /\ awaitingSend' = awaitingSend - 1
  /\ awaitingBaseline' = awaitingBaseline
  /\ startConversionCatch(msg)
  /\ lastFailure' = "none"

\* startTimer(), h the handle setInterval returns
startTimer(h) ==
  /\ elapsedSeconds' = 0
  /\ liveTimers' = (liveTimers \ {timerInterval}) \cup {h}
  /\ timerInterval' = h

\* startPolling(), h the handle setInterval returns
startPolling(h) ==
  /\ pollingInterval' = h
  /\ livePolls' = livePolls \cup {h}

\* what stopTimer() reads and writes: the handle, the intervals of the host
\* that are not cleared, and whether the call raised an exception
timerState ==
  [timerInterval |-> timerInterval, live |-> liveTimers, threw |-> FALSE]

\* a stopTimer() that clears without testing the handle for null
stopTimerOf_Unguarded(s) ==
  IF s.timerInterval = 0
    THEN [s EXCEPT !.threw = TRUE]
    ELSE [s EXCEPT !.live = @ \ {s.timerInterval}, !.timerInterval = 0]

\* stopTimer() as a function of the timer state
stopTimerOf(s) ==
  IF s.timerInterval # 0
    THEN [s EXCEPT !.live = @ \ {s.timerInterval}, !.timerInterval = 0]
    ELSE s

\* stopTimer()
stopTimer ==
  LET s == stopTimerOf(timerState)
  IN /\ liveTimers' = s.live
     /\ timerInterval' = s.timerInterval

\* startConversion(): send_currency_conversion resolved with a txid
SendResolve ==
  /\ awaitingSend > 0
  /\ awaitingSend' = awaitingSend - 1
  /\ conversionTxid' = sendResolved + 1
  /\ conversionStarted' = TRUE
  /\ sendResolved' = sendResolved + 1
  /\ startTimer(nextHandle + 1)
  /\ startPolling(nextHandle + 2)
  /\ nextHandle' = nextHandle + 2
  /\ lastFailure' = "none"
  /\ UNCHANGED <<convLife, initVars, converting, conversionError,
                 baselineBalance, conversionCompleted, actualAmountReceived,
                 awaitingBaseline, inflight, completedEvents, cancelled>>

\* the interval callback of startPolling fires and invokes the balance check
PollTick(h) ==
  /\ h \in livePolls
  /\ TotalInFlight < MaxInFlight
  /\ inflight' = [inflight EXCEPT ![h] = @ + 1]
  /\ lastFailure' = "none"
  /\ UNCHANGED <<convLife, initVars, execVars, timerVars, awaitingBaseline,
                 awaitingSend, ghostVars>>

\* completeConversion(newFundsReceived)
completeConversion(newFundsReceived) ==
  /\ livePolls' = livePolls \ {pollingInterval}
  /\ pollingInterval' = 0
  /\ stopTimer
  /\ converting' = FALSE
  /\ conversionStarted' = FALSE
  /\ conversionCompleted' = TRUE
  /\ actualAmountReceived' = newFundsReceived
  /\ completedEvents' = Min(completedEvents + 1, MaxEvents)
  /\ UNCHANGED <<conversionTxid, conversionError, baselineBalance,
                 elapsedSeconds, nextHandle, sendResolved>>

\* the conversion progress panel of the template
convertingShown == conversionStarted \/ converting

\* an interval callback that gives up once the elapsed time is used up
PollResolve_TimesOut(h, currentBalance) ==
  /\ inflight[h] > 0
  /\ inflight' = [inflight EXCEPT ![h] = @ - 1]
  /\ IF currentBalance > baselineBalance
       THEN completeConversion(currentBalance - baselineBalance)
       ELSE IF elapsedSeconds >= MaxElapsed
         THEN /\ livePolls' = livePolls \ {pollingInterval}
              /\ pollingInterval' = 0
              /\ stopTimer
              /\ converting' = FALSE
              /\ conversionStarted' = FALSE
              /\ conversionError' = <<"Conversion timed out">>
              /\ UNCHANGED <<conversionTxid, baselineBalance,
                             conversionCompleted, actualAmountReceived,
                             elapsedSeconds, nextHandle, sendResolved,
                             completedEvents>>
         ELSE UNCHANGED <<execVars, timerVars, sendResolved, completedEvents>>
  /\ cancelled' = IF inflight[h] = 1 THEN cancelled \ {h} ELSE cancelled
  /\ lastFailure' = "none"
  /\ UNCHANGED <<convLife, initVars, awaitingBaseline, awaitingSend>>

\* the interval callback resumes with the balance the backend returned
PollResolve(h, currentBalance) ==
  /\ inflight[h] > 0
  /\ inflight' = [inflight EXCEPT ![h] = @ - 1]
  /\ IF currentBalance > baselineBalance
       THEN completeConversion(currentBalance - baselineBalance)
       ELSE UNCHANGED <<execVars, timerVars, sendResolved, completedEvents>>
  /\ cancelled' = IF inflight[h] = 1 THEN cancelled \ {h} ELSE cancelled
  /\ lastFailure' = "none"
  /\ UNCHANGED <<convLife, initVars, awaitingBaseline, awaitingSend>>

\* a catch block that treats the rejected balance check as fatal
PollReject_Fatal(h) ==
  /\ inflight[h] > 0
  /\ inflight' = [inflight EXCEPT ![h] = @ - 1]
  /\ livePolls' = livePolls \ {pollingInterval}
  /\ pollingInterval' = 0
  /\ conversionError' = <<"Failed to start conversion: ", "poll failed">>
  /\ converting' = FALSE
  /\ cancelled' = IF inflight[h] = 1 THEN cancelled \ {h} ELSE cancelled
  /\ lastFailure' = "PollReject"
  /\ UNCHANGED <<convLife, initVars, conversionStarted, conversionTxid,
                 baselineBalance, conversionCompleted, actualAmountReceived,
                 timerInterval, elapsedSeconds, liveTimers, nextHandle,
                 awaitingBaseline, awaitingSend, sendResolved, completedEvents>>

\* the interval callback resumes in its catch block
PollReject(h) ==
  /\ inflight[h] > 0
  /\ inflight' = [inflight EXCEPT ![h] = @ - 1]
  /\ cancelled' = IF inflight[h] = 1 THEN cancelled \ {h} ELSE cancelled
  /\ lastFailure' = "PollReject"
  /\ UNCHANGED <<convLife, initVars, execVars, timerVars, awaitingBaseline,
                 awaitingSend, sendResolved, completedEvents>>

\* the interval callback of startTimer
TimerTick(h) ==
  /\ h \in liveTimers
  /\ elapsedSeconds < MaxElapsed
  /\ elapsedSeconds' = elapsedSeconds + 1
  /\ lastFailure' = "none"
  /\ UNCHANGED <<convLife, initVars, execVars, pollingInterval, timerInterval,
                 livePolls, liveTimers, nextHandle, asyncVars, ghostVars>>

\* retryConversion(), with initialize() up to its first await
RetryConversion ==
  /\ convLife = "mounted"
  /\ RetryVisible
  /\ conversionError' = NULL
  /\ conversionTxid' = 0
  /\ conversionStarted' = FALSE
  /\ converting' = FALSE
  /\ conversionCompleted' = FALSE
  /\ actualAmountReceived' = 0
  /\ livePolls' = livePolls \ {pollingInterval}
  /\ cancelled' = cancelled \cup {h \in {pollingInterval} \cap livePolls :
                                   inflight[h] > 0}
  /\ pollingInterval' = 0
  /\ stopTimer
  /\ loading' = TRUE
  /\ error' = NULL
  /\ initPc' = "estimate"
  /\ lastFailure' = "none"
  /\ UNCHANGED <<convLife, amountWithBuffer, totalSourceCurrencyBalance,
                 selectedDestinationAddress, conversionRate, baselineBalance,
                 elapsedSeconds, nextHandle, asyncVars, sendResolved,
                 completedEvents>>

\* onDestroy callback
DestroyConv ==
  /\ convLife = "mounted"
  /\ convLife' = "destroyed"
  /\ livePolls' = livePolls \ {pollingInterval}
  /\ liveTimers' = liveTimers \ {timerInterval}
  /\ cancelled' = cancelled \cup {h \in {pollingInterval} \cap livePolls :
                                   inflight[h] > 0}
  /\ lastFailure' = "none"
  /\ UNCHANGED <<initVars, execVars, pollingInterval, timerInterval,
                 elapsedSeconds, nextHandle, asyncVars, sendResolved,
                 completedEvents>>

NextConv ==
  \/ \E r \in {0, 10} : MountConv(r)
  \/ EstimateDone
  \/ \E total \in {0, 20} : AddressesResolve(total)
  \/ \E msg \in BackendErrors : AddressesReject(msg)
  \/ \E rate \in {0, 1} : RateDone(rate)
  \/ StartConversion
  \/ \E b \in Balances : BaselineResolve(b)
  \/ \E msg \in BackendErrors : BaselineReject(msg)
  \/ SendResolve
  \/ \E msg \in BackendErrors : SendReject(msg)
  \/ \E h \in Handles : PollTick(h)
  \/ \E h \in Handles, b \in Balances : PollResolve(h, b)
  \/ \E h \in Handles : PollReject(h)
  \/ \E h \in Handles : TimerTick(h)
  \/ RetryConversion
  \/ DestroyConv

(* ---- RegisterIdentityStep ---- *)

CommitTimeoutMsg == "Commit transaction not confirmed in time."
FinalizeTimeoutMsg == "Finalize transaction not confirmed in time."
IdentityNotReadyMsg ==
  "Identity not available after registration - this may indicate a network issue."

regFlowVars == <<phase, errorMsg, flowPc, controlAddress, privateAddress,
                 commitTxid, finalizeTxid, calls, flows, regCompleted,
                 regErrors, regErrorEvent, regArgVars>>
regTimerVars == <<regElapsedSeconds, regTimerInterval, regLiveTimers,
                  regNextHandle>>

\* the template renders the elapsed time in the two waiting phases only
elapsedShown == phase \in {"waitingCommit", "waitingFinalize"}

\* a startTimer() that keeps the elapsed value it finds
regStartTimer_NoReset ==
  /\ regLiveTimers' = (regLiveTimers \ {regTimerInterval}) \cup {regNextHandle + 1}
  /\ regTimerInterval' = regNextHandle + 1
  /\ regNextHandle' = regNextHandle + 1
  /\ UNCHANGED regElapsedSeconds

\* startTimer()
regStartTimer ==
  /\ regElapsedSeconds' = 0
  /\ regLiveTimers' = (regLiveTimers \ {regTimerInterval}) \cup {regNextHandle + 1}
  /\ regTimerInterval' = regNextHandle + 1
  /\ regNextHandle' = regNextHandle + 1

\* what stopTimer() reads and writes, as for CurrencyConversionStep
regTimerState ==
  [timerInterval |-> regTimerInterval, live |-> regLiveTimers, threw |-> FALSE]

\* stopTimer() as a function of the timer state
regStopTimerOf(s) ==
  IF s.timerInterval # 0
    THEN [s EXCEPT !.live = @ \ {s.timerInterval}, !.timerInterval = 0]
    ELSE s

\* stopTimer()
regStopTimer ==
  LET s == regStopTimerOf(regTimerState)
  IN /\ regLiveTimers' = s.live
     /\ regTimerInterval' = s.timerInterval
     /\ UNCHANGED <<regElapsedSeconds, regNextHandle>>

\* errorMsg || 'Unknown error', the message of the 'error' event
errorEventMessage(m) == IF m = <<"">> THEN <<"Unknown error">> ELSE m

\* startFlow(), up to the await of get_new_address
startFlow ==
  /\ errorMsg' = NULL
  /\ phase' = "committing"
  /\ flowPc' = "get_new_address"
  /\ calls' = <<"get_new_address">>
  /\ flows' = flows + 1
  /\ UNCHANGED <<controlAddress, privateAddress, commitTxid, finalizeTxid,
                 regCompleted, regErrors, regErrorEvent,
                 regArgVars, regTimerVars>>

\* a catch block without its stopTimer() call
startFlowCatch_NoStop(msg) ==
  /\ errorMsg' = <<msg>>
  /\ phase' = "error"
  /\ regErrors' = regErrors + 1
  /\ regErrorEvent' = errorEventMessage(<<msg>>)
  /\ flowPc' = "none"
  /\ UNCHANGED <<controlAddress, privateAddress, commitTxid, finalizeTxid,
                 calls, flows, regCompleted, regArgVars, regTimerVars>>

\* startFlow(): catch block, entered with the timer state s
startFlowCatchFrom(s, msg) ==
  LET t == regStopTimerOf(s)
  IN /\ regLiveTimers' = t.live
     /\ regTimerInterval' = t.timerInterval
     /\ errorMsg' = <<msg>>
     /\ phase' = "error"
     /\ regErrors' = regErrors + 1
     /\ regErrorEvent' = errorEventMessage(<<msg>>)
     /\ flowPc' = "none"
     /\ UNCHANGED <<controlAddress, privateAddress, commitTxid, finalizeTxid,
                    calls, flows, regCompleted, regArgVars,
                    regElapsedSeconds, regNextHandle>>

\* startFlow(): catch block
startFlowCatch(msg) == startFlowCatchFrom(regTimerState, msg)

\* onMount
RegOnMount ==
  /\ regLife' = "mounted"
  /\ startFlow
  /\ lastFailure' = "none"

\* the component is created
MountReg ==
  /\ regLife = "unmounted"
  /\ convLife = "unmounted"
  /\ RegOnMount

\* the Try Again button, rendered while errorMsg is set
TryAgain ==
  /\ regLife = "mounted"
  /\ errorMsg # NULL
  /\ flows < MaxFlows
  /\ startFlow
  /\ lastFailure' = "none"
  /\ UNCHANGED regLife

\* get_new_address resolved; register_name_commitment is invoked
NewAddressResolve ==
  /\ flowPc = "get_new_address"
  /\ controlAddress' = flows
  /\ flowPc' = "register_name_commitment"
  /\ calls' = Append(calls, "register_name_commitment")
  /\ lastFailure' = "none"
  /\ UNCHANGED <<regLife, phase, errorMsg, privateAddress, commitTxid,
                 finalizeTxid, flows, regCompleted, regErrors, regErrorEvent,
                 regArgVars, regTimerVars>>

\* register_name_commitment resolved; wait_for_block_increase is invoked
CommitResolve ==
  /\ flowPc = "register_name_commitment"
  /\ commitTxid' = flows
  /\ namereservation' = flows
  /\ phase' = "waitingCommit"
  /\ regStartTimer
  /\ flowPc' = "wait_commit"
  /\ calls' = Append(calls, "wait_for_block_increase")
  /\ lastFailure' = "none"
  /\ UNCHANGED <<regLife, errorMsg, controlAddress, privateAddress,
                 finalizeTxid, flows, regCompleted, regErrors, regErrorEvent,
                 identityBundle, regCompletedEvent>>

\* a commit wait whose result is not tested
CommitWaitResolve_IgnoresTimeout(commitOk) ==
  /\ flowPc = "wait_commit"
  /\ regStopTimer
  /\ phase' = "finalizing"
  /\ flowPc' = "get_new_private_address"
  /\ calls' = Append(calls, "get_new_private_address")
  /\ lastFailure' = IF commitOk THEN "none" ELSE "CommitWaitTimeout"
  /\ UNCHANGED <<regLife, errorMsg, controlAddress, privateAddress, commitTxid,
                 finalizeTxid, flows, regCompleted, regErrors, regErrorEvent, regArgVars>>

\* wait_for_block_increase (commit) returned commitOk
CommitWaitResolve(commitOk) ==
  /\ flowPc = "wait_commit"
  /\ IF commitOk
       THEN /\ regStopTimer
            /\ phase' = "finalizing"
            /\ flowPc' = "get_new_private_address"
            /\ calls' = Append(calls, "get_new_private_address")
            /\ lastFailure' = "none"
            /\ UNCHANGED <<errorMsg, controlAddress, privateAddress,
                           commitTxid, finalizeTxid, flows, regCompleted,
                           regErrors, regErrorEvent, regArgVars>>
       ELSE /\ startFlowCatchFrom(regStopTimerOf(regTimerState),
                               CommitTimeoutMsg)
            /\ lastFailure' = "CommitWaitTimeout"
  /\ UNCHANGED regLife

\* a continuation that builds the bundle before the commit of this attempt:
\* its txid and name reservation are the ones of the attempt before
PrivateAddressResolve_StaleBundle ==
  /\ flowPc = "get_new_private_address"
  /\ privateAddress' = flows
  /\ identityBundle' = [txid |-> commitTxid - 1,
                        namereservation |-> namereservation - 1,
                        primaryaddresses |-> <<controlAddress>>,
                        privateaddress |-> privateAddress']
  /\ flowPc' = "register_identity"
  /\ calls' = Append(calls, "register_identity")
  /\ lastFailure' = "none"
  /\ UNCHANGED <<regLife, phase, errorMsg, controlAddress, commitTxid,
                 finalizeTxid, flows, regCompleted, regErrors, regErrorEvent,
                 namereservation, regCompletedEvent, regTimerVars>>

\* get_new_private_address resolved; register_identity is invoked with the
\* identity bundle
PrivateAddressResolve ==
  /\ flowPc = "get_new_private_address"
  /\ privateAddress' = flows
  /\ identityBundle' = [txid |-> commitTxid,
                        namereservation |-> namereservation,
                        primaryaddresses |-> <<controlAddress>>,
                        privateaddress |-> privateAddress']
  /\ flowPc' = "register_identity"
  /\ calls' = Append(calls, "register_identity")
  /\ lastFailure' = "none"
  /\ UNCHANGED <<regLife, phase, errorMsg, controlAddress, commitTxid,
                 finalizeTxid, flows, regCompleted, regErrors, regErrorEvent,
                 namereservation, regCompletedEvent, regTimerVars>>

\* a continuation that forgets to set phase = 'waitingFinalize'
FinalizeResolve_NoPhaseUpdate ==
  /\ flowPc = "register_identity"
  /\ finalizeTxid' = flows
  /\ regStartTimer
  /\ flowPc' = "wait_finalize"
  /\ calls' = Append(calls, "wait_for_block_increase")
  /\ lastFailure' = "none"
  /\ UNCHANGED <<regLife, phase, errorMsg, controlAddress, privateAddress,
                 commitTxid, flows, regCompleted, regErrors, regErrorEvent, regArgVars>>

\* register_identity resolved; wait_for_block_increase is invoked
FinalizeResolve ==
  /\ flowPc = "register_identity"
  /\ finalizeTxid' = flows
  /\ phase' = "waitingFinalize"
  /\ regStartTimer
  /\ flowPc' = "wait_finalize"
  /\ calls' = Append(calls, "wait_for_block_increase")
  /\ lastFailure' = "none"
  /\ UNCHANGED <<regLife, errorMsg, controlAddress, privateAddress,
                 commitTxid, flows, regCompleted, regErrors, regErrorEvent, regArgVars>>

\* wait_for_block_increase (finalize) returned finOk
FinalizeWaitResolve(finOk) ==
  /\ flowPc = "wait_finalize"
  /\ IF finOk
       THEN /\ regStopTimer
            /\ flowPc' = "wait_for_identity_ready"
            /\ calls' = Append(calls, "wait_for_identity_ready")
            /\ lastFailure' = "none"
            /\ UNCHANGED <<phase, errorMsg, controlAddress, privateAddress,
                           commitTxid, finalizeTxid, flows, regCompleted,
                           regErrors, regErrorEvent, regArgVars>>
       ELSE /\ startFlowCatchFrom(regStopTimerOf(regTimerState),
                               FinalizeTimeoutMsg)
            /\ lastFailure' = "FinalizeWaitTimeout"
  /\ UNCHANGED regLife

\* startFlow() from the return of wait_for_identity_ready to its end
identityReadyContinuation(identityReady) ==
  /\ flowPc = "wait_for_identity_ready"
  /\ IF identityReady
       THEN /\ phase' = "done"
            /\ regCompleted' = regCompleted + 1
            /\ regCompletedEvent' = [controlAddress |-> controlAddress,
                                     privateAddress |-> privateAddress]
            /\ flowPc' = "none"
            /\ lastFailure' = "none"
            /\ UNCHANGED <<errorMsg, controlAddress, privateAddress,
                           commitTxid, finalizeTxid, calls, flows, regErrors,
                           regErrorEvent, namereservation, identityBundle,
                           regTimerVars>>
       ELSE /\ startFlowCatch(IdentityNotReadyMsg)
            /\ lastFailure' = "IdentityNotReady"

\* wait_for_identity_ready returned identityReady
IdentityReadyResolve(identityReady) ==
  /\ identityReadyContinuation(identityReady)
  /\ UNCHANGED regLife

\* a catch block that retries by itself: get_new_address is invoked again
FlowReject_AutoRetry(msg) ==
  /\ flowPc # "none"
  /\ regStopTimer
  /\ errorMsg' = <<msg>>
  /\ phase' = "error"
  /\ regErrors' = regErrors + 1
  /\ regErrorEvent' = errorEventMessage(<<msg>>)
  /\ flowPc' = "get_new_address"
  /\ calls' = <<"get_new_address">>
  /\ lastFailure' = "FlowReject"
  /\ UNCHANGED <<regLife, controlAddress, privateAddress, commitTxid,
                 finalizeTxid, flows, regCompleted, regArgVars>>

\* the awaited backend command rejected with msg
FlowReject(msg) ==
  /\ flowPc # "none"
  /\ startFlowCatch(msg)
  /\ lastFailure' = "FlowReject"
  /\ UNCHANGED regLife

\* the interval callback of startTimer
RegTimerTick(h) ==
  /\ h \in regLiveTimers
  /\ regElapsedSeconds < MaxElapsed
  /\ regElapsedSeconds' = regElapsedSeconds + 1
  /\ lastFailure' = "none"
  /\ UNCHANGED <<regLife, regFlowVars, regTimerInterval, regLiveTimers,
                 regNextHandle>>

\* the cleanup function onMount returned
DestroyReg ==
  /\ regLife = "mounted"
  /\ regLife' = "destroyed"
  /\ regLiveTimers' = regLiveTimers \ {regTimerInterval}
  /\ lastFailure' = "none"
  /\ UNCHANGED <<regFlowVars, regElapsedSeconds, regTimerInterval,
                 regNextHandle>>

NextReg ==
  \/ MountReg
  \/ TryAgain
  \/ NewAddressResolve
  \/ CommitResolve
  \/ \E ok \in BOOLEAN : CommitWaitResolve(ok)
  \/ PrivateAddressResolve
  \/ FinalizeResolve
  \/ \E ok \in BOOLEAN : FinalizeWaitResolve(ok)
  \/ \E ok \in BOOLEAN : IdentityReadyResolve(ok)
  \/ \E msg \in BackendErrors : FlowReject(msg)
  \/ \E h \in RegHandles : RegTimerTick(h)
  \/ DestroyReg

\* the backend resolves or rejects the command startFlow awaits
RegBackend ==
  \/ NewAddressResolve
  \/ CommitResolve
  \/ \E ok \in BOOLEAN : CommitWaitResolve(ok)
  \/ PrivateAddressResolve
  \/ FinalizeResolve
  \/ \E ok \in BOOLEAN : FinalizeWaitResolve(ok)
  \/ \E ok \in BOOLEAN : IdentityReadyResolve(ok)
  \/ \E msg \in BackendErrors : FlowReject(msg)

\* RegisterIdentityStep alone
RegNext == NextReg /\ UNCHANGED <<convVars, modalVars>>

Next ==
  \/ UNCHANGED <<regVars, modalVars>> /\ NextConv
  \/ UNCHANGED <<convVars, modalVars>> /\ NextReg

Spec == Init /\ [][Next]_vars

\* the behaviours of Spec in which RegisterIdentityStep is the step rendered
RegSpec == Init /\ [][RegNext]_vars

\* RegisterIdentityStep with a backend that answers every invocation: the
\* bounded waits return by their timeout at the latest
RegFairSpec ==
  Init /\ [][RegNext]_vars
       /\ WF_vars(RegBackend /\ UNCHANGED <<convVars, modalVars>>)

(* ---- VerusIdStep ---- *)

\* fetchIdentities(), up to the await of get_login_identities_fast; name is
\* the newIdentityName the caller's then-callback holds, or NULL
fetchIdentities(name) ==
  /\ \E k \in FetchSlots : fetching[k] = NULL
  /\ fetchStatus' = "fetching"
  /\ loginIdentities' = <<>>
  /\ selectedIdentityIAddress' = NULL
  /\ balanceLoadingStatus' = noStatus
  /\ idSelected' = NULL
  /\ loginIdentityOptions' = skeletonOptions
  /\ fetching' = [fetching EXCEPT ![freeSlot] =
                    [pc |-> "identities", newIdentityName |-> name,
                     ids |-> <<>>, settled |-> {}]]

\* autoSelectNewIdentity(identityName) on the list ids: the selection and the
\* idSelected event that follow, s the selection and event before the call
autoSelectNewIdentity(ids, identityName, s) ==
  IF \E i \in DOMAIN ids : ids[i].formatted_name = identityName
    THEN LET i == CHOOSE j \in DOMAIN ids :
                    /\ ids[j].formatted_name = identityName
                    /\ \A l \in 1..(j - 1) : ids[l].formatted_name # identityName
         IN [selectedIdentityIAddress |-> <<ids[i].i_address>>,
             idSelected |-> <<ids[i]>>]
    ELSE s

\* the then-callback of handleCloseRegistrationModal, run when the execution
\* in slot k returns with the list ids and the selection and event s
fetchDone(k, ids, s) ==
  LET name == fetching[k].newIdentityName
      t == IF name # NULL THEN autoSelectNewIdentity(ids, name, s) ELSE s
  IN /\ selectedIdentityIAddress' = t.selectedIdentityIAddress
     /\ idSelected' = t.idSelected
     /\ fetching' = [fetching EXCEPT ![k] = NULL]

\* fetchIdentities(): get_login_identities_fast returned ids
IdentitiesResolve(k, ids) ==
  /\ fetching[k] # NULL
  /\ fetching[k].pc = "identities"
  /\ IF ids = <<>>
       THEN /\ fetchStatus' = "error"
            /\ fetchDone(k, loginIdentities,
                         [selectedIdentityIAddress |-> selectedIdentityIAddress,
                          idSelected |-> NULL])
            /\ UNCHANGED <<loginIdentities, loginIdentityOptions,
                           balanceLoadingStatus>>
       ELSE LET sorted == sortByName([i \in DOMAIN ids |-> fastIdentity(ids[i])])
                st == [n \in IdentityNames |->
                         IF \E i \in DOMAIN ids : ids[i] = n
                           THEN "loading" ELSE balanceLoadingStatus[n]]
            IN /\ loginIdentities' = sorted
               /\ balanceLoadingStatus' = st
               /\ loginIdentityOptions' = optionsOf(st, sorted)
               /\ fetchStatus' = "success"
               /\ fetching' = [fetching EXCEPT ![k].pc = "balances",
                                               ![k].ids = sorted]
               /\ UNCHANGED <<selectedIdentityIAddress, idSelected>>
  /\ UNCHANGED <<show, closeEvent>>

\* fetchIdentities(): get_login_identities_fast rejected
IdentitiesReject(k) ==
  /\ fetching[k] # NULL
  /\ fetching[k].pc = "identities"
  /\ fetchStatus' = "error"
  /\ fetchDone(k, loginIdentities,
               [selectedIdentityIAddress |-> selectedIdentityIAddress,
                idSelected |-> NULL])
  /\ UNCHANGED <<loginIdentities, loginIdentityOptions, balanceLoadingStatus,
                 show, closeEvent>>

\* fetchBalancesProgressively() keeping only the identities whose balance loaded
BalanceSettle_DropFailed(k, i, balance) ==
  /\ fetching[k] # NULL
  /\ fetching[k].pc = "balances"
  /\ i \in DOMAIN fetching[k].ids
  /\ i \notin fetching[k].settled
  /\ LET ids == [fetching[k].ids EXCEPT ![i].balance = balance]
         st == [balanceLoadingStatus EXCEPT ![ids[i].i_address] =
                  IF balance = NULL THEN "error" ELSE "loaded"]
         kept == SelectSeq(ids, LAMBDA id : id.balance # NULL)
     IN /\ balanceLoadingStatus' = st
        /\ IF fetching[k].settled \cup {i} = DOMAIN ids
             THEN /\ loginIdentities' = kept
                  /\ loginIdentityOptions' = optionsOf(st, kept)
                  /\ fetchDone(k, kept,
                        [selectedIdentityIAddress |-> selectedIdentityIAddress,
                         idSelected |-> idSelected])
             ELSE /\ fetching' = [fetching EXCEPT ![k].ids = ids,
                                                  ![k].settled = @ \cup {i}]
                  /\ UNCHANGED <<loginIdentities, loginIdentityOptions,
                                 selectedIdentityIAddress, idSelected>>
  /\ UNCHANGED <<fetchStatus, show, closeEvent>>

\* fetchBalancesProgressively(): the get_identity_balance call of the i-th
\* identity of the execution in slot k settled, with <<balance>> or, rejected,
\* with NULL; the last one to settle resolves Promise.allSettled, the list is
\* replaced and fetchIdentities returns
BalanceSettle(k, i, balance) ==
  /\ fetching[k] # NULL
  /\ fetching[k].pc = "balances"
  /\ i \in DOMAIN fetching[k].ids
  /\ i \notin fetching[k].settled
  /\ LET ids == [fetching[k].ids EXCEPT ![i].balance = balance]
         st == [balanceLoadingStatus EXCEPT ![ids[i].i_address] =
                  IF balance = NULL THEN "error" ELSE "loaded"]
     IN /\ balanceLoadingStatus' = st
        /\ IF fetching[k].settled \cup {i} = DOMAIN ids
             THEN /\ loginIdentities' = ids
                  /\ loginIdentityOptions' = optionsOf(st, ids)
                  /\ fetchDone(k, ids,
                        [selectedIdentityIAddress |-> selectedIdentityIAddress,
                         idSelected |-> idSelected])
             ELSE /\ fetching' = [fetching EXCEPT ![k].ids = ids,
                                                  ![k].settled = @ \cup {i}]
                  /\ UNCHANGED <<loginIdentities, loginIdentityOptions,
                                 selectedIdentityIAddress, idSelected>>
  /\ UNCHANGED <<fetchStatus, show, closeEvent>>

\* the dropdown is rendered while fetching or with a non-empty list
dropdownShown ==
  \/ fetchStatus = "fetching"
  \/ fetchStatus = "success" /\ loginIdentities # <<>>

\* handleIdSelection: the user picks the enabled option i of the dropdown
IdSelection(i) ==
  /\ ~show
  /\ dropdownShown
  /\ i \in DOMAIN loginIdentityOptions
  /\ loginIdentityOptions[i].enabled
  /\ selectedIdentityIAddress' = <<loginIdentityOptions[i].id>>
  /\ idSelected' =
       IF \E j \in DOMAIN loginIdentities :
            loginIdentities[j].i_address = loginIdentityOptions[i].id
         THEN <<loginIdentities[CHOOSE j \in DOMAIN loginIdentities :
                  loginIdentities[j].i_address = loginIdentityOptions[i].id]>>
         ELSE NULL
  /\ UNCHANGED <<fetchStatus, loginIdentities, loginIdentityOptions,
                 balanceLoadingStatus, fetching, show,
                 closeEvent>>

\* the Retry button of the error panel
RetryFetch ==
  /\ ~show
  /\ fetchStatus = "error"
  /\ fetchIdentities(NULL)
  /\ UNCHANGED <<show, closeEvent>>

IdStep(step) ==
  /\ step
  /\ lastFailure' = "none"
  /\ UNCHANGED <<convVars, regVars, currentStep, keysBackupReady,
                 registrationData, convSource, ownConversionCompleted, pdsIsValid,
                 keyVars, localVars>>

NextIdStep ==
  \/ \E k \in FetchSlots, ids \in IdentityLists : IdStep(IdentitiesResolve(k, ids))
  \/ \E k \in FetchSlots : IdStep(IdentitiesReject(k))
  \/ \E k \in FetchSlots, i \in 1..MaxIdentities,
        b \in {NULL} \cup {<<n>> : n \in Balances} : IdStep(BalanceSettle(k, i, b))
  \/ \E i \in 1..MaxIdentities : IdStep(IdSelection(i))
  \/ IdStep(RetryFetch)

(* ---- VerusIdRegistrationModal ---- *)

totalSteps == 4

\* what IdentityInfoStep and PaymentDetailsStep can report
Names == {"", "alice"}
Namespaces == {"VRSC", "bitcoins"}
DirectOption ==
  [currencyName |-> "VRSC", isDirect |-> TRUE, requiredAmount |-> 10]
ConversionOptions ==
  {[currencyName |-> c, isDirect |-> FALSE, requiredAmount |-> 10] :
     c \in {"DAI", "ETH"}}
PaymentOptions == {DirectOption} \cup ConversionOptions

\* the state of the modal its handlers read and write
modalState ==
  [currentStep |-> currentStep, keysBackupReady |-> keysBackupReady,
   registrationData |-> registrationData]

\* resetModalState()
resetModalState ==
  [currentStep |-> 1, keysBackupReady |-> FALSE,
   registrationData |-> initialRegistrationData]

\* String.prototype.toLowerCase on Namespaces
toLowerCase(str) == IF str = "VRSC" THEN "vrsc" ELSE str

\* isRootNamespace(namespace)
isRootNamespace(namespace) ==
  LET lname == toLowerCase(namespace) IN lname = "vrsc" \/ lname = "vrsctest"

\* handleClose() asking for a refresh whatever the step
handleClose_RefreshAlways(s) ==
  LET rd == s.registrationData
  IN [refresh |-> TRUE,
      newIdentityName |->
        IF rd.namespace # NULL
          THEN IF isRootNamespace(rd.namespace[1])
                 THEN <<rd.name, "@">>
                 ELSE <<rd.name, ".", rd.namespace[1], "@">>
          ELSE NULL]

\* handleClose(): the detail of the 'close' event
handleClose(s) ==
  LET isCompleted == s.currentStep = 4 /\ s.keysBackupReady
      rd == s.registrationData
  IN [refresh |-> isCompleted,
      newIdentityName |->
        IF isCompleted /\ rd.namespace # NULL
          THEN IF isRootNamespace(rd.namespace[1])
                 THEN <<rd.name, "@">>
                 ELSE <<rd.name, ".", rd.namespace[1], "@">>
          ELSE NULL]

\* handleNext()
handleNext(s) ==
  LET rd == s.registrationData
  IN IF /\ s.currentStep = 2
        /\ rd.selectedPaymentOption # NULL
        /\ ~rd.selectedPaymentOption[1].isDirect
        /\ ~rd.conversionCompleted
       THEN [s EXCEPT !.registrationData.showConversionStep = TRUE]
       ELSE IF s.currentStep < totalSteps
         THEN [s EXCEPT !.currentStep = @ + 1,
                        !.registrationData.showConversionStep = FALSE]
         ELSE s

\* handlePrevious()
handlePrevious(s) ==
  IF s.registrationData.showConversionStep
    THEN [s EXCEPT !.registrationData.showConversionStep = FALSE]
    ELSE IF s.currentStep > 1 THEN [s EXCEPT !.currentStep = @ - 1] ELSE s

\* handleStep1DataChange(event)
handleStep1DataChange(s, detail) ==
  [s EXCEPT !.registrationData.name = detail.name,
            !.registrationData.namespace = detail.namespace,
            !.registrationData.isStep1Valid = detail.isValid]

\* handleStep2DataChange(event)
handleStep2DataChange(s, detail) ==
  [s EXCEPT !.registrationData.selectedPaymentOption = detail.selectedPaymentOption,
            !.registrationData.isStep2Valid = detail.isValid,
            !.registrationData.conversionCompleted = FALSE,
            !.registrationData.showConversionStep = FALSE]

\* handleConversionCompleted(event)
handleConversionCompleted(s, detail) ==
  [s EXCEPT !.registrationData.conversionCompleted = TRUE,
            !.registrationData.conversionTxid = detail.txid,
            !.registrationData.actualAmountReceived = detail.actualAmountReceived]

\* handleConversionStatusChange(event)
handleConversionStatusChange(s, detail) ==
  [s EXCEPT !.registrationData.isConverting = detail.isConverting]

\* $: isInConversionFlow
isInConversionFlow(s) == s.registrationData.showConversionStep

\* $: canProceed
canProceed(s) ==
  LET rd == s.registrationData
  IN CASE s.currentStep = 1 -> rd.isStep1Valid
       [] s.currentStep = 2 ->
            IF isInConversionFlow(s)
              THEN rd.conversionCompleted \/ rd.conversionCanProceed
              ELSE rd.isStep2Valid
       [] s.currentStep = 3 -> FALSE
       [] s.currentStep = 4 -> s.keysBackupReady
       [] OTHER -> TRUE

\* $: canGoBack
canGoBack(s) ==
  /\ s.currentStep > 1 \/ s.registrationData.showConversionStep
  /\ ~s.registrationData.isConverting
  /\ s.currentStep # 3
  /\ s.currentStep # 4

\* $: canCancel
canCancel(s) ==
  /\ ~s.registrationData.isConverting
  /\ \/ s.currentStep = 1
     \/ s.currentStep = 2
     \/ isInConversionFlow(s) /\ s.registrationData.conversionCompleted

\* the step component the template renders
stepShown(sh, s) ==
  IF ~sh THEN "none"
  ELSE IF s.currentStep = 1 THEN "IdentityInfoStep"
  ELSE IF s.currentStep = 2 /\ s.registrationData.namespace # NULL
    THEN IF isInConversionFlow(s) THEN "CurrencyConversionStep"
                                  ELSE "PaymentDetailsStep"
  ELSE IF s.currentStep = 3 /\ s.registrationData.namespace # NULL
    THEN "RegisterIdentityStep"
  ELSE IF s.currentStep = 4 THEN "KeyBackupStep"
  ELSE "none"

shown == stepShown(show, modalState)

\* CurrencyConversionStep has no promise pending and no interval left
convQuiescent ==
  /\ initPc = "none"
  /\ awaitingBaseline = 0
  /\ awaitingSend = 0
  /\ TotalInFlight = 0
  /\ livePolls = {}
  /\ liveTimers = {}

\* a destroyed CurrencyConversionStep that has nothing pending is garbage:
\* the next one the template creates starts from the declared values
convDiscarded ==
  /\ convLife' = "unmounted"
  /\ loading' = TRUE
  /\ error' = NULL
  /\ initPc' = "none"
  /\ amountWithBuffer' = 0
  /\ totalSourceCurrencyBalance' = 0
  /\ selectedDestinationAddress' = ""
  /\ conversionRate' = 0
  /\ converting' = FALSE
  /\ conversionStarted' = FALSE
  /\ conversionTxid' = 0
  /\ conversionError' = NULL
  /\ pollingInterval' = 0
  /\ baselineBalance' = 0
  /\ conversionCompleted' = FALSE
  /\ actualAmountReceived' = 0
  /\ elapsedSeconds' = 0
  /\ timerInterval' = 0
  /\ nextHandle' = 0
  /\ sendResolved' = 0
  /\ completedEvents' = 0
  /\ cancelled' = {}
  /\ awaitingBaseline' = 0
  /\ awaitingSend' = 0
  /\ inflight' = [h \in Handles |-> 0]
  /\ livePolls' = {}
  /\ liveTimers' = {}
  /\ lastFailure' = "none"

\* the last promise or interval of a destroyed CurrencyConversionStep is gone
DiscardConv ==
  /\ convLife = "destroyed"
  /\ convQuiescent
  /\ convDiscarded

\* the host frees a destroyed RegisterIdentityStep that has nothing pending
DiscardReg ==
  /\ regLife = "destroyed"
  /\ flowPc = "none"
  /\ regLiveTimers = {}
  /\ regLife' = "unmounted"
  /\ phase' = "idle"
  /\ errorMsg' = NULL
  /\ controlAddress' = 0
  /\ privateAddress' = 0
  /\ commitTxid' = 0
  /\ finalizeTxid' = 0
  /\ regElapsedSeconds' = 0
  /\ regTimerInterval' = 0
  /\ regNextHandle' = 0
  /\ calls' = <<>>
  /\ flows' = 0
  /\ regCompleted' = 0
  /\ regErrors' = 0
  /\ regErrorEvent' = NULL
  /\ namereservation' = 0
  /\ identityBundle' = [txid |-> 0, namereservation |-> 0,
                        primaryaddresses |-> <<0>>, privateaddress |-> 0]
  /\ regCompletedEvent' = [controlAddress |-> 0, privateAddress |-> 0]
  /\ lastFailure' = "none"
  /\ UNCHANGED <<flowPc, regLiveTimers>>

\* What a destroyed component still does without any other component seeing
\* it (the rest of initialize(), being freed) is done before any other step.
convUnobserved == convLife = "destroyed" /\ (initPc # "none" \/ convQuiescent)
regUnobserved == regLife = "destroyed" /\ flowPc = "none" /\ regLiveTimers = {}
Settled == ~convUnobserved /\ ~regUnobserved

\* the bound props and the statusChange event of CurrencyConversionStep after
\* a step of it: the reactive blocks run for a mounted component only, and the
\* statusChange block runs when converting or conversionStarted changed
convBound(s) ==
  IF convLife = "mounted"
    THEN LET t == [s EXCEPT
                     !.registrationData.conversionCanProceed = internalCanProceed',
                     !.registrationData.conversionStartFunction =
                        IF internalCanProceed' THEN <<"startConversion">> ELSE NULL]
         IN IF converting' # converting \/ conversionStarted' # conversionStarted
              THEN handleConversionStatusChange(t,
                     [isConverting |-> converting' \/ conversionStarted'])
              ELSE t
    ELSE s

\* the modal's variables, set from the state s its handler leaves
RenderModal(sh, s) ==
  /\ show' = sh
  /\ currentStep' = s.currentStep
  /\ keysBackupReady' = s.keysBackupReady
  /\ registrationData' =
       IF stepShown(sh, s) = "CurrencyConversionStep"
          /\ shown # "CurrencyConversionStep"
         THEN [s.registrationData EXCEPT !.conversionCanProceed = FALSE,
                                         !.conversionStartFunction = NULL]
         ELSE s.registrationData

\* the template creates and destroys CurrencyConversionStep
convLifecycle(new, s) ==
  IF shown = "CurrencyConversionStep" /\ new # "CurrencyConversionStep"
    THEN /\ IF /\ initPc = "none" /\ awaitingBaseline = 0 /\ awaitingSend = 0
                /\ TotalInFlight = 0
                /\ livePolls \subseteq {pollingInterval}
                /\ liveTimers \subseteq {timerInterval}
              THEN convDiscarded
              ELSE DestroyConv
         /\ convSource' = IF convLife' = "unmounted" THEN "" ELSE convSource
  ELSE IF new = "CurrencyConversionStep" /\ shown # "CurrencyConversionStep"
    THEN /\ convLife = "unmounted"
         /\ ConvOnMount(s.registrationData.selectedPaymentOption[1].requiredAmount)
         /\ convSource' = s.registrationData.selectedPaymentOption[1].currencyName
  ELSE UNCHANGED <<convVars, convSource>>

\* the template creates and destroys RegisterIdentityStep
regLifecycle(new) ==
  IF shown = "RegisterIdentityStep" /\ new # "RegisterIdentityStep"
    THEN DestroyReg
  ELSE IF new = "RegisterIdentityStep" /\ shown # "RegisterIdentityStep"
    THEN /\ regLife = "unmounted"
         /\ convLife = "unmounted" \/ convQuiescent
         /\ RegOnMount
  ELSE UNCHANGED regVars

\* the template creates and destroys KeyBackupStep: onMount invokes
\* dump_privkey; what a destroyed instance still awaits changes its own
\* variables only
keyLifecycle(new) ==
  IF shown = "KeyBackupStep" /\ new # "KeyBackupStep"
    THEN keyPc' = "none" /\ ack1' = FALSE /\ ack2' = FALSE
  ELSE IF new = "KeyBackupStep" /\ shown # "KeyBackupStep"
    THEN keyPc' = "dump_privkey" /\ ack1' = FALSE /\ ack2' = FALSE
  ELSE UNCHANGED keyVars

\* the template creates and destroys PaymentDetailsStep: no option is selected
pdsLifecycle(new) ==
  IF (shown = "PaymentDetailsStep") # (new = "PaymentDetailsStep")
    THEN pdsIsValid' = FALSE
    ELSE UNCHANGED pdsIsValid

\* a handler of the modal left the state s and the flush re-renders
Navigate(sh, s) ==
  /\ RenderModal(sh, s)
  /\ convLifecycle(stepShown(sh, s), s)
  /\ regLifecycle(stepShown(sh, s))
  /\ keyLifecycle(stepShown(sh, s))
  /\ pdsLifecycle(stepShown(sh, s))
  /\ lastFailure' = "none"

\* handleGetVerusId of VerusIdStep with a modal that keeps its state
Open_NoReset ==
  /\ Settled
  /\ ~show
  /\ Navigate(TRUE, modalState)
  /\ ownConversionCompleted' = FALSE
  /\ closeEvent' = NULL
  /\ UNCHANGED <<idFetchVars, localVars>>

\* handleGetVerusId of VerusIdStep; $: if (show) resetModalState()
Open ==
  /\ Settled
  /\ ~show
  /\ Navigate(TRUE, resetModalState)
  /\ ownConversionCompleted' = FALSE
  /\ closeEvent' = NULL
  /\ UNCHANGED <<idFetchVars, localVars>>

\* IdentityInfoStep dispatches dataChange; isValid needs a name and a namespace
Step1DataChange(name, namespace, isValid) ==
  /\ Settled
  /\ shown = "IdentityInfoStep"
  /\ isValid => name # "" /\ namespace # NULL
  /\ Navigate(show, handleStep1DataChange(modalState,
                [name |-> name, namespace |-> namespace, isValid |-> isValid]))
  /\ UNCHANGED <<ownConversionCompleted, hostVars, localVars>>

\* selectPaymentOption(option) of PaymentDetailsStep for an affordable option:
\* dispatchDataChange() reads isValid before the reactive statement has
\* recomputed it for this selection
SelectPaymentOption(option) ==
  /\ Settled
  /\ shown = "PaymentDetailsStep"
  /\ RenderModal(show, handleStep2DataChange(modalState,
       [selectedPaymentOption |-> <<option>>, isValid |-> pdsIsValid]))
  /\ pdsIsValid' = TRUE
  /\ ownConversionCompleted' = FALSE
  /\ lastFailure' = "none"
  /\ UNCHANGED <<convVars, convSource, regVars, keyVars, hostVars, localVars>>

\* the Next button outside the conversion sub-step, before step 4
ClickNext ==
  /\ Settled
  /\ show
  /\ ~isInConversionFlow(modalState)
  /\ canProceed(modalState)
  /\ currentStep # 4
  /\ Navigate(show, handleNext(modalState))
  /\ UNCHANGED <<ownConversionCompleted, hostVars, localVars>>

\* the button of the conversion sub-step once the conversion is complete
ClickConversionNext ==
  /\ Settled
  /\ show
  /\ isInConversionFlow(modalState)
  /\ canProceed(modalState)
  /\ registrationData.conversionCompleted
  /\ Navigate(show, handleNext(modalState))
  /\ UNCHANGED <<ownConversionCompleted, hostVars, localVars>>

\* the Previous button
ClickPrevious ==
  /\ Settled
  /\ show
  /\ canGoBack(modalState)
  /\ Navigate(show, handlePrevious(modalState))
  /\ UNCHANGED <<ownConversionCompleted, hostVars, localVars>>

\* handleCloseRegistrationModal of VerusIdStep on the 'close' event
handleCloseRegistrationModal(detail) ==
  /\ closeEvent' = detail
  /\ Navigate(FALSE, modalState)
  /\ IF detail.refresh
       THEN fetchIdentities(detail.newIdentityName)
       ELSE UNCHANGED idFetchVars
  /\ UNCHANGED <<ownConversionCompleted, localVars>>

\* the Cancel button
ClickCancel ==
  /\ Settled
  /\ show
  /\ canCancel(modalState)
  /\ handleCloseRegistrationModal(handleClose(modalState))

\* the Finish button: handleFinish() in step 4
ClickFinish ==
  /\ Settled
  /\ show
  /\ ~isInConversionFlow(modalState)
  /\ canProceed(modalState)
  /\ currentStep = 4
  /\ handleCloseRegistrationModal(handleClose(modalState))

\* a step of CurrencyConversionStep inside the modal; completed tells that the
\* step dispatched 'completed', which reaches the modal from a destroyed
\* component too
InModal(step, completed) ==
  /\ initPc = "none" => Settled
  /\ step
  /\ registrationData' =
       convBound(IF completed
                   THEN handleConversionCompleted(modalState,
                          [txid |-> conversionTxid,
                           actualAmountReceived |-> actualAmountReceived'])
                   ELSE modalState).registrationData
  /\ ownConversionCompleted' =
       IF completed
         THEN \/ ownConversionCompleted
              \/ /\ registrationData.selectedPaymentOption # NULL
                 /\ registrationData.selectedPaymentOption[1].currencyName = convSource
         ELSE ownConversionCompleted
  /\ UNCHANGED <<show, currentStep, keysBackupReady, convSource, regVars,
                 pdsIsValid, keyVars, hostVars, localVars>>

\* the Start Conversion button of the conversion sub-step
ClickStartConversion ==
  /\ show
  /\ isInConversionFlow(modalState)
  /\ canProceed(modalState)
  /\ ~registrationData.conversionCompleted
  /\ registrationData.conversionStartFunction # NULL
  /\ sendResolved + awaitingBaseline + awaitingSend < MaxModalSends
  /\ InModal(StartConversion, FALSE)

NextConvInModal ==
  \/ InModal(EstimateDone, FALSE)
  \/ InModal(AddressesResolve(20), FALSE)
  \/ \E msg \in BackendErrors : InModal(AddressesReject(msg), FALSE)
  \/ InModal(RateDone(1), FALSE)
  \/ ClickStartConversion
  \/ InModal(BaselineResolve(0), FALSE)
  \/ \E msg \in BackendErrors : InModal(BaselineReject(msg), FALSE)
  \/ InModal(SendResolve, FALSE)
  \/ \E msg \in BackendErrors : InModal(SendReject(msg), FALSE)
  \/ \E h \in Handles : InModal(PollTick(h), FALSE)
  \/ \E h \in Handles, b \in Balances :
       InModal(PollResolve(h, b), b > baselineBalance)
  \/ \E h \in Handles : InModal(PollReject(h), FALSE)
  \/ \E h \in Handles : InModal(TimerTick(h), FALSE)
  \/ InModal(RetryConversion, FALSE)
  \/ /\ DiscardConv
     /\ convSource' = ""
     /\ UNCHANGED <<regVars, show, currentStep, keysBackupReady,
                    registrationData, ownConversionCompleted, pdsIsValid,
                    keyVars, hostVars, localVars>>

\* on:completed of RegisterIdentityStep: the addresses are stored, then
\* handleNext().  When the component is destroyed by this its interval is
\* cleared already.
IdentityReadyInModal(identityReady) ==
  /\ Settled
  /\ identityReadyContinuation(identityReady)
  /\ IF identityReady
       THEN LET s == handleNext(
                  [modalState EXCEPT
                     !.registrationData.controlAddress =
                        regCompletedEvent'.controlAddress,
                     !.registrationData.privateAddress =
                        regCompletedEvent'.privateAddress])
                new == stepShown(show, s)
            IN /\ RenderModal(show, s)
               /\ regLife' = IF shown = "RegisterIdentityStep"
                                /\ new # "RegisterIdentityStep"
                               THEN "destroyed" ELSE regLife
               /\ convLifecycle(new, s)
               /\ keyLifecycle(new)
               /\ pdsLifecycle(new)
       ELSE UNCHANGED <<regLife, convVars, modalVars>>
  /\ UNCHANGED <<ownConversionCompleted, hostVars, localVars>>

RegStepInModal(step) == Settled /\ step /\ UNCHANGED <<convVars, modalVars>>

NextRegInModal ==
  \/ RegStepInModal(TryAgain)
  \/ RegStepInModal(NewAddressResolve)
  \/ RegStepInModal(CommitResolve)
  \/ \E ok \in BOOLEAN : RegStepInModal(CommitWaitResolve(ok))
  \/ RegStepInModal(PrivateAddressResolve)
  \/ RegStepInModal(FinalizeResolve)
  \/ \E ok \in BOOLEAN : RegStepInModal(FinalizeWaitResolve(ok))
  \/ \E ok \in BOOLEAN : IdentityReadyInModal(ok)
  \/ \E msg \in BackendErrors : RegStepInModal(FlowReject(msg))
  \/ \E h \in RegHandles : RegStepInModal(RegTimerTick(h))
  \/ DiscardReg /\ UNCHANGED <<convVars, modalVars>>

(* ---- KeyBackupStep ---- *)

\* onMount: dump_privkey resolved, export_z_key is invoked
DumpPrivkeyResolve ==
  /\ keyPc = "dump_privkey"
  /\ keyPc' = "export_z_key"
  /\ UNCHANGED <<ack1, ack2>>

\* onMount: export_z_key resolved, loading ends
ExportZKeyResolve ==
  /\ keyPc = "export_z_key"
  /\ keyPc' = "loaded"
  /\ UNCHANGED <<ack1, ack2>>

\* onMount: catch block, the error replaces the keys and the checkboxes
KeyReject ==
  /\ keyPc \in {"dump_privkey", "export_z_key"}
  /\ keyPc' = "failed"
  /\ UNCHANGED <<ack1, ack2>>

\* $: canFinish
canFinishOf(a1, a2) == a1 /\ a2

\* the user toggles a checkbox; $: if (canFinish) dispatch('ready') runs when
\* canFinish changed, and on:ready sets keysBackupReady
ToggleAck(a1, a2) ==
  /\ shown = "KeyBackupStep"
  /\ keyPc = "loaded"
  /\ (a1 = ack1) # (a2 = ack2)
  /\ ack1' = a1
  /\ ack2' = a2
  /\ keysBackupReady' =
       IF canFinishOf(a1, a2) /\ ~canFinishOf(ack1, ack2)
         THEN TRUE ELSE keysBackupReady
  /\ UNCHANGED keyPc

KeyStepInModal(step) ==
  /\ Settled
  /\ step
  /\ lastFailure' = "none"
  /\ UNCHANGED <<convVars, regVars, show, currentStep, registrationData,
                 convSource, ownConversionCompleted, pdsIsValid, hostVars, localVars>>

NextKeyInModal ==
  \/ KeyStepInModal(DumpPrivkeyResolve /\ UNCHANGED keysBackupReady)
  \/ KeyStepInModal(ExportZKeyResolve /\ UNCHANGED keysBackupReady)
  \/ KeyStepInModal(KeyReject /\ UNCHANGED keysBackupReady)
  \/ \E a1, a2 \in BOOLEAN : KeyStepInModal(ToggleAck(a1, a2))

NextModal ==
  \/ Open
  \/ \E name \in Names, namespace \in {NULL, <<"VRSC">>},
        isValid \in BOOLEAN : Step1DataChange(name, namespace, isValid)
  \/ \E option \in PaymentOptions : SelectPaymentOption(option)
  \/ ClickNext
  \/ ClickConversionNext
  \/ ClickPrevious
  \/ ClickCancel
  \/ ClickFinish
  \/ NextConvInModal
  \/ NextRegInModal
  \/ NextKeyInModal

\* the registration modal with its step components, opened from VerusIdStep
ModalSpec == Init /\ [][NextModal]_vars

\* the user opens the modal once the identities are loaded
OpenAfterFetch == (\A k \in FetchSlots : fetching[k] = NULL) /\ Open

\* VerusIdStep with the registration modal of a user who opens it once the
\* identities are loaded, pays directly, and whose registration meets no
\* failure and no wait long enough for a timer tick
NextHost ==
  \/ OpenAfterFetch
  \/ \E name \in Names, namespace \in {NULL} \cup {<<n>> : n \in Namespaces},
        isValid \in BOOLEAN : Step1DataChange(name, namespace, isValid)
  \/ SelectPaymentOption(DirectOption)
  \/ ClickNext
  \/ ClickPrevious
  \/ ClickCancel
  \/ ClickFinish
  \/ RegStepInModal(NewAddressResolve)
  \/ RegStepInModal(CommitResolve)
  \/ RegStepInModal(CommitWaitResolve(TRUE))
  \/ RegStepInModal(PrivateAddressResolve)
  \/ RegStepInModal(FinalizeResolve)
  \/ RegStepInModal(FinalizeWaitResolve(TRUE))
  \/ IdentityReadyInModal(TRUE)
  \/ DiscardReg /\ UNCHANGED <<convVars, modalVars>>
  \/ NextKeyInModal
  \/ NextIdStep

HostSpec == Init /\ [][NextHost]_vars

\* VerusIdStep alone
IdStepSpec == Init /\ [][NextIdStep]_vars

(* ---- PaymentDetailsStep: the payment options ---- *)

\* Amounts are in units of 0.00005.  selectedNamespace is a namespace whose
\* registration fee is priced in the native currency; finalPrice is the fee.
payNamespace == [name |-> "bitcoins", fee_currency_name |-> "VRSC"]
nativeCurrencyName == "VRSC"
finalPrice == 1
DefaultFee == 2
ReserveNames == {"bitcoins", "DAI"}
PayCurrencies == {nativeCurrencyName} \cup ReserveNames

\* the answers of get_wallet_info
WalletInfos ==
  [balance : 0..MaxWallet, reserve_balance : [ReserveNames -> 0..MaxWallet],
   paytxfee : 0..MaxFee]

\* the names of bestcurrencystate.reservecurrencies in the answers of get_currency
ReserveSets == {{"VRSC"}, {"VRSC", "DAI"}}

\* the answers of estimate_currency_conversion for the price in the namespace
\* currency and for the price in a reserve currency: <<amount>>, or NULL when
\* the call rejects
Estimates == [ReserveNames -> {NULL} \cup {<<a>> : a \in 1..MaxPrice}]

\* String.prototype.localeCompare on PayCurrencies
currencyRank(c) ==
  CASE c = "bitcoins" -> 1 [] c = "DAI" -> 2 [] c = "VRSC" -> 3

\* the comparator of options.sort: affordable first, then direct, then by name
optionCompare(a, b) ==
  IF a.isAffordable # b.isAffordable THEN (IF a.isAffordable THEN -1 ELSE 1)
  ELSE IF a.isDirect # b.isDirect THEN (IF a.isDirect THEN -1 ELSE 1)
  ELSE IF currencyRank(a.currencyName) < currencyRank(b.currencyName) THEN -1
  ELSE IF currencyRank(a.currencyName) > currencyRank(b.currencyName) THEN 1
  ELSE 0

\* options.sort(...) of the options pushed, which differ in currencyName
RECURSIVE sortOptions(_)
sortOptions(S) ==
  IF S = {} THEN <<>>
  ELSE LET first == CHOOSE o \in S : \A p \in S \ {o} : optionCompare(o, p) < 0
       IN <<first>> \o sortOptions(S \ {first})

\* const networkFee = walletInfo.paytxfee || 0.0001
networkFee(w) == IF w.paytxfee = 0 THEN DefaultFee ELSE w.paytxfee

\* calculatePaymentOptions(currencyDetails) with the wallet w, the reserves of
\* the namespace currency and the estimates est.  The USD estimate of an
\* option is display text and is left out.
calculatePaymentOptions(w, reserves, est) ==
  LET userCurrencies ==
        (IF w.balance > 0 THEN {nativeCurrencyName} ELSE {})
          \cup {c \in ReserveNames : w.reserve_balance[c] > 0}
      reserveCurrencyNames ==
        reserves \cup {payNamespace.name, payNamespace.fee_currency_name}
      viableCurrencies == userCurrencies \cap reserveCurrencyNames
      namespaceCurrencyPrice ==
        IF payNamespace.fee_currency_name # payNamespace.name
          THEN (IF est[payNamespace.name] = NULL THEN finalPrice
                ELSE est[payNamespace.name][1])
          ELSE finalPrice
      isDirect(c) == c = payNamespace.name
      \* the estimate of a currency that needs conversion rejected: the
      \* currency is skipped
      skipped(c) ==
        /\ ~isDirect(c)
        /\ c # payNamespace.fee_currency_name
        /\ est[c] = NULL
      requiredAmount(c) ==
        IF isDirect(c) THEN namespaceCurrencyPrice
        ELSE IF c = payNamespace.fee_currency_name THEN finalPrice
        ELSE est[c][1]
      userBalance(c) ==
        IF c = "VRSC" \/ c = "VRSCTEST" THEN w.balance ELSE w.reserve_balance[c]
      option(c) ==
        [currencyName |-> c, requiredAmount |-> requiredAmount(c),
         userBalance |-> userBalance(c),
         isAffordable |-> userBalance(c) >= requiredAmount(c) + networkFee(w),
         isDirect |-> isDirect(c), selected |-> FALSE]
  IN sortOptions({option(c) : c \in {v \in viableCurrencies : ~skipped(v)}})

\* get_wallet_info returned
PdsWalletResolve(w) ==
  /\ pdsPc = "get_wallet_info"
  /\ walletInfo' = w
  /\ pdsPc' = "get_currency"
  /\ UNCHANGED <<paymentOptions, selectedPaymentOption, pdsLoading, pdsError>>

\* get_currency returned: calculatePaymentOptions runs to its end; while it
\* awaits its estimates the loading skeleton is all the component renders
PdsCurrencyResolve(reserves, est) ==
  /\ pdsPc = "get_currency"
  /\ paymentOptions' = calculatePaymentOptions(walletInfo, reserves, est)
  /\ pdsLoading' = FALSE
  /\ pdsPc' = "none"
  /\ UNCHANGED <<walletInfo, selectedPaymentOption, pdsError>>

\* get_wallet_info or get_currency rejected
PdsLoadReject(msg) ==
  /\ pdsPc \in {"get_wallet_info", "get_currency"}
  /\ pdsError' = <<"Failed to load payment options: ", msg>>
  /\ pdsLoading' = FALSE
  /\ pdsPc' = "none"
  /\ UNCHANGED <<walletInfo, paymentOptions, selectedPaymentOption>>

\* the payment option cards are rendered
optionsShown == ~pdsLoading /\ pdsError = NULL /\ paymentOptions # <<>>

\* $: hasAffordableOptions
hasAffordableOptions ==
  \E i \in DOMAIN paymentOptions : paymentOptions[i].isAffordable

\* selectPaymentOption(option) selecting whatever card is clicked
selectPaymentOption_NoGuard(i) ==
  /\ optionsShown
  /\ i \in DOMAIN paymentOptions
  /\ paymentOptions' = [j \in DOMAIN paymentOptions |->
                          [paymentOptions[j] EXCEPT !.selected = (j = i)]]
  /\ selectedPaymentOption' = <<paymentOptions'[i]>>
  /\ UNCHANGED <<walletInfo, pdsLoading, pdsError, pdsPc>>

\* a click on the i-th card: selectPaymentOption(option)
selectPaymentOption(i) ==
  /\ optionsShown
  /\ i \in DOMAIN paymentOptions
  /\ IF ~paymentOptions[i].isAffordable
       THEN UNCHANGED <<paymentOptions, selectedPaymentOption>>
       ELSE /\ paymentOptions' = [j \in DOMAIN paymentOptions |->
                                    [paymentOptions[j] EXCEPT !.selected = (j = i)]]
            /\ selectedPaymentOption' = <<paymentOptions'[i]>>
  /\ UNCHANGED <<walletInfo, pdsLoading, pdsError, pdsPc>>

\* refreshBalances(): the Retry button of the error panel and the Refresh
\* Balances button shown when no option is affordable
refreshBalances ==
  /\ ~pdsLoading
  /\ pdsError # NULL \/ ~hasAffordableOptions
  /\ pdsLoading' = TRUE
  /\ pdsError' = NULL
  /\ pdsPc' = "get_wallet_info"
  /\ UNCHANGED <<walletInfo, paymentOptions, selectedPaymentOption>>

PayStep(step) ==
  /\ step
  /\ UNCHANGED <<convVars, regVars, lastFailure, show, currentStep,
                 keysBackupReady, registrationData, convSource,
                 ownConversionCompleted, pdsIsValid, keyVars, hostVars, nameVars,
                 onboarding, chat>>

NextPay ==
  \/ \E w \in WalletInfos : PayStep(PdsWalletResolve(w))
  \/ \E reserves \in ReserveSets, est \in Estimates :
       PayStep(PdsCurrencyResolve(reserves, est))
  \/ \E msg \in BackendErrors : PayStep(PdsLoadReject(msg))
  \/ \E i \in 1..Cardinality(PayCurrencies) : PayStep(selectPaymentOption(i))
  \/ PayStep(refreshBalances)

\* PaymentDetailsStep alone
PaySpec == Init /\ [][NextPay]_vars

(* ---- IdentityInfoStep: the name availability check ---- *)

DebounceMs == 500
Delays == {250, 500}
NameInputs == {<<>>, <<" ">>, <<"a">>, <<"a", ".">>}
blockedChars == {"/", ":", "*", "?", "\"", "<", ">", "|", "@", ".", ")"}

\* inputValue.replace(blockedChars, '')
filtered(value) == SelectSeq(value, LAMBDA ch : ch \notin blockedChars)

\* String.prototype.trim
RECURSIVE trim(_)
trim(str) ==
  IF str = <<>> THEN <<>>
  ELSE IF Head(str) = " " THEN trim(Tail(str))
  ELSE IF str[Len(str)] = " " THEN trim(SubSeq(str, 1, Len(str) - 1))
  ELSE str

\* fullId of checkNameAvailability
fullId(n, namespace) ==
  IF isRootNamespace(namespace) THEN <<n, "@">> ELSE <<n, ".", namespace, "@">>

\* checkNameAvailability(), up to its await; byDebounce tells that the
\* timeout callback called it
checkNameAvailability(byDebounce) ==
  IF trim(idName) = <<>> \/ selectedNamespace = NULL
    THEN /\ nameAvailabilityStatus' = "unchecked"
         /\ burstChecks' = burstChecks
         /\ UNCHANGED <<lastCheck, inflightChecks>>
    ELSE /\ nameAvailabilityStatus' = "checking"
         /\ lastCheck' = <<fullId(idName, selectedNamespace[1])>>
         /\ inflightChecks' = inflightChecks + 1
         /\ burstChecks' = IF byDebounce THEN burstChecks + 1 ELSE burstChecks

\* handleNameInput(event) leaving the timeout set before in place
handleNameInput_NoClear(value) ==
  /\ idLife = "mounted"
  /\ debounceTimeout < MaxInputs
  /\ idName' = filtered(value)
  /\ nameAvailabilityStatus' = "unchecked"
  /\ debounceTimeout' = debounceTimeout + 1
  /\ liveTimeouts' = liveTimeouts
                       \cup {[handle |-> debounceTimeout + 1, left |-> DebounceMs]}
  /\ sinceInput' = 0
  /\ burstChecks' = 0
  /\ UNCHANGED <<idLife, selectedNamespace, lastCheck, inflightChecks>>

\* handleNameInput(event) with event.target.value = value
handleNameInput(value) ==
  /\ idLife = "mounted"
  /\ debounceTimeout < MaxInputs
  /\ idName' = filtered(value)
  /\ nameAvailabilityStatus' = "unchecked"
  /\ debounceTimeout' = debounceTimeout + 1
  /\ liveTimeouts' = {t \in liveTimeouts : t.handle # debounceTimeout}
                       \cup {[handle |-> debounceTimeout + 1, left |-> DebounceMs]}
  /\ sinceInput' = 0
  /\ burstChecks' = 0
  /\ UNCHANGED <<idLife, selectedNamespace, lastCheck, inflightChecks>>

\* time passes; a timeout that is due fires first
Advance(d) ==
  /\ \A t \in liveTimeouts : d <= t.left
  /\ liveTimeouts # {} \/ sinceInput < MaxSince
  /\ liveTimeouts' = {[t EXCEPT !.left = @ - d] : t \in liveTimeouts}
  /\ sinceInput' = Min(sinceInput + d, MaxSince)
  /\ UNCHANGED <<idLife, idName, selectedNamespace, nameAvailabilityStatus,
                 debounceTimeout, burstChecks, lastCheck, inflightChecks>>

\* the callback of the timeout t: checkNameAvailability()
TimeoutFire(t) ==
  /\ t \in liveTimeouts
  /\ t.left = 0
  /\ liveTimeouts' = liveTimeouts \ {t}
  /\ checkNameAvailability(TRUE)
  /\ UNCHANGED <<idLife, idName, selectedNamespace, debounceTimeout, sinceInput>>

\* handleNamespaceSelect(namespace): the check runs at once
handleNamespaceSelect(namespace) ==
  /\ idLife = "mounted"
  /\ inflightChecks < MaxChecks
  /\ selectedNamespace' = <<namespace>>
  /\ IF trim(idName) = <<>>
       THEN /\ nameAvailabilityStatus' = "unchecked"
            /\ UNCHANGED <<lastCheck, inflightChecks>>
       ELSE /\ nameAvailabilityStatus' = "checking"
            /\ lastCheck' = <<fullId(idName, namespace)>>
            /\ inflightChecks' = inflightChecks + 1
  /\ UNCHANGED <<idLife, idName, debounceTimeout, liveTimeouts, sinceInput,
                 burstChecks>>

\* check_identity_exists returned exists, or rejected (status "error")
CheckSettle(status) ==
  /\ inflightChecks > 0
  /\ inflightChecks' = inflightChecks - 1
  /\ nameAvailabilityStatus' = status
  /\ UNCHANGED <<idLife, idName, selectedNamespace, debounceTimeout,
                 liveTimeouts, sinceInput, burstChecks, lastCheck>>

\* the cleanup function onMount returned
UnmountIdentityInfo ==
  /\ idLife = "mounted"
  /\ idLife' = "destroyed"
  /\ liveTimeouts' = {t \in liveTimeouts : t.handle # debounceTimeout}
  /\ UNCHANGED <<idName, selectedNamespace, nameAvailabilityStatus,
                 debounceTimeout, sinceInput, burstChecks, lastCheck,
                 inflightChecks>>

NameStep(step) ==
  /\ step
  /\ UNCHANGED <<convVars, regVars, lastFailure, show, currentStep,
                 keysBackupReady, registrationData, convSource,
                 ownConversionCompleted, pdsIsValid, keyVars, hostVars, payVars,
                 onboarding, chat>>

NextName ==
  \/ \E value \in NameInputs : NameStep(handleNameInput(value))
  \/ \E d \in Delays : NameStep(Advance(d))
  \/ \E t \in liveTimeouts : NameStep(TimeoutFire(t))
  \/ \E namespace \in Namespaces : NameStep(handleNamespaceSelect(namespace))
  \/ \E status \in {"taken", "available", "error"} : NameStep(CheckSettle(status))
  \/ NameStep(UnmountIdentityInfo)

\* IdentityInfoStep alone
DebounceSpec == Init /\ [][NextName]_vars

(* ---- OnboardingFlow and ConversationsList alone ---- *)

\* OnboardingFlow alone
OnboardingSpec == Init /\ [][NextOnboarding]_vars

\* ConversationsList alone
ChatSpec == Init /\ [][NextChat]_vars

(* ---- the claims ---- *)

Range(seq) == {seq[i] : i \in 1..Len(seq)}

\* C1: every started conversion dispatches 'completed' at most once, whatever
\* the interleaving of the poll ticks: the number of 'completed' events never
\* exceeds the number of conversions whose submission succeeded.
C1_CompletedOnce == completedEvents <= sendResolved

\* C2: a balance check in flight when onDestroy or retryConversion cleared its
\* interval is discarded: its resolution changes none of converting,
\* conversionStarted, conversionCompleted, actualAmountReceived and dispatches
\* no 'completed' event.
C2_StaleResultDiscarded ==
  [][(\E h \in Handles : h \in cancelled /\ inflight'[h] < inflight[h])
       => UNCHANGED <<converting, conversionStarted, conversionCompleted,
                      actualAmountReceived, completedEvents>>]_vars

\* C3: at most one polling interval timer of the component is live.
C3_OnePollLoop == Cardinality(livePolls) <= 1

\* C4: once RegisterIdentityStep is unmounted no elapsed-time interval timer
\* of it is running.
C4_NoTimerAfterUnmount == regLife = "destroyed" => regLiveTimers = {}

\* C5: once CurrencyConversionStep is destroyed no further balance check is
\* issued by a poll tick.
C5_NoPollAfterDestroy ==
  [][convLife = "destroyed"
       => \A h \in Handles : inflight'[h] <= inflight[h]]_vars

\* C6: when the baseline fetch or send_currency_conversion rejects, no poll
\* interval and no elapsed timer is started, converting is false,
\* conversionStarted is false and conversionError is set.
C6_RejectedSubmission ==
  [][(/\ awaitingBaseline' + awaitingSend' < awaitingBaseline + awaitingSend
      /\ sendResolved' = sendResolved)
       => /\ livePolls' = livePolls
          /\ liveTimers' = liveTimers
          /\ pollingInterval' = pollingInterval
          /\ timerInterval' = timerInterval
          /\ ~converting'
          /\ ~conversionStarted'
          /\ conversionError' # NULL]_vars

\* C7: the submission resolves before any readiness check starts: a poll
\* interval or a balance check of a tick exists only after a
\* send_currency_conversion resolved successfully, and wait_for_block_increase
\* is in flight only directly after the register_name_commitment (commit) or
\* register_identity (finalize) of the same attempt resolved.
C7_SubmissionBeforePolling ==
  /\ (livePolls # {} \/ TotalInFlight > 0) => sendResolved > 0
  /\ \A h \in livePolls : h <= 2 * sendResolved
  /\ flowPc = "wait_commit"
       => /\ commitTxid = flows
          /\ calls[Len(calls) - 1] = "register_name_commitment"
  /\ flowPc = "wait_finalize"
       => /\ finalizeTxid = flows
          /\ calls[Len(calls) - 1] = "register_identity"
  /\ \A i \in 1..Len(calls) :
       calls[i] = "wait_for_block_increase"
         => /\ i > 1
            /\ calls[i - 1] \in {"register_name_commitment", "register_identity"}

C7_Witness == TotalInFlight > 0 /\ sendResolved > 0 /\ livePolls # {}

\* C8: a poll tick whose balance check rejects changes no state of the
\* component and dispatches nothing; the interval stays live, so the
\* following tick fires.
C8_PollErrorSkipped ==
  [][lastFailure' = "PollReject"
       => UNCHANGED <<converting, conversionStarted, conversionCompleted,
                      conversionError, pollingInterval, timerInterval,
                      livePolls, liveTimers, actualAmountReceived,
                      completedEvents>>]_vars

C8_Witness ==
  /\ lastFailure = "PollReject"
  /\ converting
  /\ conversionStarted
  /\ pollingInterval \in livePolls

C10_NoTimerInErrorState ==
  /\ phase = "error" => regTimerInterval = 0
  /\ conversionError # NULL
       => /\ pollingInterval \notin livePolls
          /\ timerInterval \notin liveTimers

\* C11: in phase 'error' no backend command is pending, and a step taken in
\* phase 'error' either keeps the phase and invokes no backend command, or is
\* the user's Try Again click, which starts startFlow again (phase
\* 'committing'); nothing else leaves 'error'.
C11_ErrorUntilTryAgain ==
  [][phase = "error"
       => /\ flowPc = "none"
          /\ \/ /\ phase' = "error"
                /\ calls' = calls
                /\ flowPc' = "none"
             \/ /\ regLife = "mounted"
                /\ errorMsg # NULL
                /\ flows' = flows + 1
                /\ phase' = "committing"
                /\ calls' = <<"get_new_address">>]_vars

C11_Witness == flows > 1 /\ regErrors > 0 /\ phase = "committing"

\* C12: a tracker is never started while it is running: Try Again is offered
\* only when no execution of startFlow is in progress, and at most one
\* execution of startConversion is in progress, so send_currency_conversion
\* is never in flight twice.
C12_NeverStartedWhileRunning ==
  /\ (regLife = "mounted" /\ errorMsg # NULL) => flowPc = "none"
  /\ awaitingBaseline + awaitingSend <= 1
  /\ awaitingSend <= 1

C14_PhaseSteps ==
  {<<"idle", "committing">>, <<"committing", "waitingCommit">>,
   <<"waitingCommit", "finalizing">>, <<"finalizing", "waitingFinalize">>,
   <<"waitingFinalize", "done">>}

C14_PhaseOrder ==
  [][phase' # phase
       => \/ <<phase, phase'>> \in C14_PhaseSteps
          \/ /\ phase' = "error"
             /\ phase \in {"idle", "committing", "waitingCommit",
                            "finalizing", "waitingFinalize"}
          \/ /\ phase = "error"
             /\ phase' = "committing"
             /\ flows' = flows + 1]_vars

C14_Witness == phase = "done" /\ flows > 1 /\ regErrors > 0 /\ regCompleted = 1

\* C15: with a backend that answers every invocation, an attempt in progress
\* leads to phase 'done' or 'error'; and in 'done' and 'error' no backend
\* command (no readiness wait) is pending and no interval timer runs.
C15_AttemptTerminates ==
  /\ (flowPc # "none") ~> (flowPc = "none" /\ phase \in {"done", "error"})
  /\ [](phase \in {"done", "error"}
          => flowPc = "none" /\ regLiveTimers = {})

C15_Witness ==
  /\ phase \in {"done", "error"}
  /\ flowPc = "none"
  /\ regNextHandle > 0
  /\ calls[Len(calls)] \in {"wait_for_block_increase", "wait_for_identity_ready"}

\* C16: the polling has no timeout.  A poll interval is cleared, and the
\* conversion progress state is left, only by a completion (a balance check
\* that found new funds), by retryConversion, by onDestroy or, before the
\* submission resolved, by its rejection; conversionError is set by a rejected
\* submission only.  Nothing depends on the elapsed time.
C16_Completion ==
  /\ conversionCompleted'
  /\ actualAmountReceived' > 0
  /\ \E h \in Handles : inflight'[h] < inflight[h]

C16_UserCancel ==
  /\ convLife = "mounted"
  /\ \/ convLife' = "destroyed"
     \/ RetryVisible /\ loading' /\ initPc' = "estimate"

C16_Rejection ==
  /\ awaitingBaseline' + awaitingSend' < awaitingBaseline + awaitingSend
  /\ sendResolved' = sendResolved

C16_PollingUnbounded ==
  [][/\ ~(livePolls \subseteq livePolls')
          => C16_Completion \/ C16_UserCancel
     /\ (conversionStarted /\ ~conversionStarted')
          => C16_Completion \/ C16_UserCancel
     /\ (convertingShown /\ ~convertingShown')
          => C16_Completion \/ C16_UserCancel \/ C16_Rejection
     /\ (conversionError = NULL /\ conversionError' # NULL)
          => C16_Rejection]_vars

C16_Witness ==
  /\ conversionStarted
  /\ converting
  /\ pollingInterval \in livePolls
  /\ elapsedSeconds = MaxElapsed
  /\ baselineBalance = MaxBalance
  /\ inflight[pollingInterval] > 0
  /\ conversionError = NULL

\* C17: 'completed' is dispatched only after a submission resolved and a poll
\* found the balance above the baseline; the step that dispatches it leaves
\* no poll interval and no elapsed timer running, and the payload
\* actualAmountReceived is greater than 0.
C17_SuccessAfterObservedIncrease ==
  [][(completedEvents' > completedEvents
        \/ (conversionCompleted' /\ ~conversionCompleted))
       => /\ sendResolved > 0
          /\ \E h \in Handles : inflight'[h] < inflight[h]
          /\ actualAmountReceived' > 0
          /\ pollingInterval' = 0
          /\ timerInterval' = 0
          /\ livePolls' = {}
          /\ liveTimers' = {}]_vars

\* C18 as stated: after a failed submission the message shown is the raised
\* message and nothing else: errorMsg and the message of the 'error' event of
\* RegisterIdentityStep, and conversionError of CurrencyConversionStep.
C18_Raised == {<<m>> : m \in BackendErrors}

C21_FullFlow ==
  <<"get_new_address", "register_name_commitment", "wait_for_block_increase",
    "get_new_private_address", "register_identity",
    "wait_for_block_increase", "wait_for_identity_ready">>

C21_TwoPhaseOrder ==
  /\ [][/\ (flowPc' = "register_identity" /\ flowPc # "register_identity")
             => /\ phase = "finalizing"
                /\ calls = SubSeq(C21_FullFlow, 1, 4)
                /\ lastFailure' = "none"
                /\ identityBundle'
                     = [txid |-> flows, namereservation |-> flows,
                        primaryaddresses |-> <<flows>>,
                        privateaddress |-> flows]
        /\ regCompleted' # regCompleted
             => /\ regCompleted' = regCompleted + 1
                /\ calls = C21_FullFlow
                /\ flowPc = "wait_for_identity_ready"
                /\ lastFailure' = "none"
                /\ regErrors' = regErrors
                /\ regCompletedEvent'
                     = [controlAddress |-> flows, privateAddress |-> flows]
                /\ identityBundle.txid = flows]_vars
  /\ [](regCompleted + regErrors
          = IF flowPc = "none" THEN flows ELSE flows - 1)

C21_Witness ==
  /\ phase = "done"
  /\ flows > 1
  /\ regErrors > 0
  /\ regCompleted = 1
  /\ identityBundle.txid = flows
  /\ regCompletedEvent.privateAddress = flows

(* ---- C30 ---- *)

\* C30: the step on which the last get_identity_balance call of an execution
\* of fetchIdentities settles leaves in loginIdentities exactly the identities
\* the execution fetched, in their alphabetical order, every one of them an
\* enabled option of the dropdown, and one whose balance call failed has no
\* balance, in the list and in its option
C30_KeepsEveryIdentity ==
  [][\A k \in FetchSlots :
       (fetching[k] # NULL /\ fetching[k].pc = "balances" /\ fetching'[k] = NULL)
       => LET ids == fetching[k].ids
          IN /\ Len(loginIdentities') = Len(ids)
             /\ DOMAIN loginIdentityOptions' = DOMAIN ids
             /\ \A i \in DOMAIN ids :
                  /\ loginIdentities'[i].formatted_name = ids[i].formatted_name
                  /\ loginIdentities'[i].i_address = ids[i].i_address
                  /\ loginIdentityOptions'[i].id = ids[i].i_address
                  /\ loginIdentityOptions'[i].name = ids[i].formatted_name
                  /\ loginIdentityOptions'[i].enabled
                  /\ balanceLoadingStatus'[ids[i].i_address] = "error"
                       => /\ loginIdentities'[i].balance = NULL
                          /\ loginIdentityOptions'[i].balance = NULL
             /\ \A i, j \in DOMAIN ids :
                  i < j => localeCompare(loginIdentities'[i].formatted_name,
                                         loginIdentities'[j].formatted_name) < 0]_vars

\* balance loading is over, one balance call failed and another succeeded
C30_Witness ==
  /\ fetchStatus = "success"
  /\ \A k \in FetchSlots : fetching[k] = NULL
  /\ Len(loginIdentities) = 2
  /\ \E i, j \in DOMAIN loginIdentities :
       /\ loginIdentities[i].balance = NULL
       /\ balanceLoadingStatus[loginIdentities[i].i_address] = "error"
       /\ loginIdentityOptions[i].enabled
       /\ loginIdentities[j].balance # NULL

(* ---- C28 ---- *)

debounceFires ==
  /\ debounceTimeout' = debounceTimeout
  /\ idLife' = idLife
  /\ liveTimeouts' # liveTimeouts
  /\ liveTimeouts' \subseteq liveTimeouts

\* C29: the debounce fires 500 ms after the last input of a burst and issues
\* exactly one check_identity_exists call, for the final name
C29_ExactlyOneCall ==
  [][debounceFires =>
       /\ burstChecks' = 1
       /\ sinceInput = DebounceMs
       /\ lastCheck' = <<fullId(idName, selectedNamespace[1])>>]_vars

\* C29, as it holds: an input sets the status to 'unchecked' and leaves its own
\* timeout as the only one pending; the timeout fires 500 ms after the last
\* input and runs checkNameAvailability once, which issues one
\* check_identity_exists call for the final name if that name is not blank and
\* a namespace is selected, and none otherwise; nothing is pending after the
\* unmount
C29_Debounced ==
  [][/\ Cardinality(liveTimeouts') <= 1
     /\ burstChecks' <= 1
     /\ debounceTimeout' # debounceTimeout =>
          /\ nameAvailabilityStatus' = "unchecked"
          /\ liveTimeouts' = {[handle |-> debounceTimeout', left |-> DebounceMs]}
     /\ debounceFires =>
          /\ sinceInput = DebounceMs
          /\ liveTimeouts' = {}
          /\ IF trim(idName) # <<>> /\ selectedNamespace # NULL
               THEN /\ burstChecks' = 1
                    /\ inflightChecks' = inflightChecks + 1
                    /\ nameAvailabilityStatus' = "checking"
                    /\ lastCheck' = <<fullId(idName, selectedNamespace[1])>>
               ELSE /\ burstChecks' = 0
                    /\ nameAvailabilityStatus' = "unchecked"
                    /\ UNCHANGED <<lastCheck, inflightChecks>>
     /\ idLife' = "destroyed" => liveTimeouts' = {}]_vars

\* a burst of two inputs or more is over and the one call of the debounce,
\* for the final name, is in flight
C29_Witness ==
  /\ debounceTimeout >= 2
  /\ liveTimeouts = {}
  /\ burstChecks = 1
  /\ sinceInput = DebounceMs
  /\ nameAvailabilityStatus = "checking"
  /\ lastCheck = <<fullId(idName, selectedNamespace[1])>>

(* ---- C27 ---- *)

\* C27: on every step on which show becomes true currentStep is 1,
\* keysBackupReady is false and registrationData has its initial value
C27_ResetOnOpen ==
  [][(~show /\ show')
       => /\ currentStep' = 1
          /\ keysBackupReady' = FALSE
          /\ registrationData' = initialRegistrationData]_vars

\* the modal has just been opened again after a finished registration, while
\* the conversion sub-step of an earlier flow is not gone yet
C27_Witness ==
  /\ show
  /\ currentStep = 1
  /\ registrationData = initialRegistrationData
  /\ \E k \in FetchSlots :
       fetching[k] # NULL /\ fetching[k].newIdentityName # NULL
  /\ sendResolved > 0

(* ---- C22 ---- *)

\* a conversion is in progress: converting || conversionStarted of the
\* CurrencyConversionStep the template created
inProgress == convLife # "unmounted" /\ (converting \/ conversionStarted)

\* C22: while the modal is shown the Cancel button is enabled in steps 1 and 2
\* unless a conversion is in progress, and it is disabled in steps 3 and 4 and
\* in every state in which a conversion is in progress
C22_CancelEnabled ==
  show =>
    /\ (currentStep \in {1, 2} /\ ~inProgress) => canCancel(modalState)
    /\ currentStep \in {3, 4} => ~canCancel(modalState)
    /\ inProgress => ~canCancel(modalState)

(* ---- C23 ---- *)

\* the Start Conversion button is rendered and enabled
startEnabled ==
  /\ show
  /\ isInConversionFlow(modalState)
  /\ canProceed(modalState)
  /\ ~registrationData.conversionCompleted
  /\ registrationData.conversionStartFunction # NULL

\* C23: while a conversion is in progress the conversion sub-step is mounted
\* and shown, Cancel is disabled, Previous is not offered and Start Conversion
\* is disabled
C23_NoWayOut ==
  inProgress =>
    /\ convLife = "mounted"
    /\ shown = "CurrencyConversionStep"
    /\ ~canCancel(modalState)
    /\ ~canGoBack(modalState)
    /\ ~startEnabled

(* ---- C24 ---- *)

\* C24: a step from step 2 to step 3 is taken only with a selected payment
\* option that is direct or whose conversion has completed, and Next with an
\* option that requires a conversion none of which has completed shows the
\* conversion sub-step and stays in step 2
C24_AdvanceNeedsPayment ==
  [][/\ (currentStep = 2 /\ currentStep' = 3)
          => /\ registrationData.selectedPaymentOption # NULL
             /\ \/ registrationData.selectedPaymentOption[1].isDirect
                \/ ownConversionCompleted
     /\ (/\ show /\ currentStep = 2 /\ shown = "PaymentDetailsStep"
         /\ registrationData.selectedPaymentOption # NULL
         /\ ~registrationData.selectedPaymentOption[1].isDirect
         /\ ~registrationData.conversionCompleted
         /\ registrationData' # registrationData
         /\ registrationData'.selectedPaymentOption
              = registrationData.selectedPaymentOption
         /\ registrationData'.isStep2Valid = registrationData.isStep2Valid
         /\ ~registrationData'.conversionCompleted)
          => /\ registrationData'.showConversionStep
             /\ currentStep' = 2]_vars

(* ---- C25 ---- *)

\* C25: step 4 is left only by the Finish button, which closes the modal, and
\* in step 4 the Finish button is enabled only while both acknowledgment
\* checkboxes are checked
C25_FinishNeedsBothChecked ==
  [][/\ (show /\ currentStep = 4 /\ (~show' \/ currentStep' # 4))
          => /\ canProceed(modalState)
             /\ ~show'
             /\ closeEvent' = handleClose(modalState)
     /\ (show' /\ currentStep' = 4
         /\ canProceed([currentStep |-> currentStep',
                        keysBackupReady |-> keysBackupReady',
                        registrationData |-> registrationData']))
          => (ack1' /\ ack2')]_vars

(* ---- C26 ---- *)

C32_AcknowledgedOnce ==
  [][/\ chat'.opened # chat.opened
         => (chat.hasAcknowledgedChatInfo \/ chat.conversations > 0)
     /\ chat'.life = "mounted"
         => (showExplainer(chat')
               <=> (chat'.conversations = 0
                      /\ chat'.chatInfoAcknowledged # <<"true">>))
     /\ (chat.hasAcknowledgedChatInfo \/ chat.chatInfoAcknowledged = <<"true">>)
         => /\ chat'.chatInfoAcknowledged = <<"true">>
            /\ chat'.life = "mounted" => chat'.hasAcknowledgedChatInfo]_vars

\* a list without conversations whose explainer was acknowledged has
\* dispatched openNewChatModal
C32_Witness ==
  /\ chat.life = "mounted"
  /\ chat.conversations = 0
  /\ chat.hasAcknowledgedChatInfo
  /\ chat.opened > 0

====
